---- MODULE Spec2Model ----
(***************************************************************************)
(* AgentFlow: the node/flow execution model.                               *)
(*                                                                         *)
(*   core/flow.rs   Flow: add_node, add_edge, run, get_next_step           *)
(*   core/batch.rs  Batch::call, ParallelBatch::call                       *)
(*   core/node.rs   RetryNode::call (create_retry_node)                    *)
(*   patterns/multi_agent.rs  MultiAgent: add_agent, run                   *)
(*   patterns/mapreduce.rs    MapReduce::run                               *)
(*   patterns/rag.rs          Rag::ask                                     *)
(*   patterns/workflow.rs     Workflow: set_params, execute, call          *)
(*   patterns/batchflow.rs    BatchFlow::run                               *)
(*   patterns/agent.rs        Agent: new, with_retry, decide               *)
(*   patterns/structured_output.rs   StructuredOutput: generate, call      *)
(*                                                                         *)
(* A SharedStore (Arc<Mutex<HashMap<String, Value>>>) is a handle: an      *)
(* index into heap, whose entries are the maps.  A map is a function whose *)
(* DOMAIN is the set of keys present.  A serde_json Value is a pair        *)
(* <<type, content>>.  A node is arbitrary user code: every node call      *)
(* picks its effect on the store from a small set.                         *)
(***************************************************************************)
EXTENDS Integers, Sequences, FiniteSets, TLC

\* ---------------------------------------------------------------- bounds
MaxBuildOps == 3   \* add_node / add_edge calls before a run
MaxSteps    == 4   \* node calls of one Flow.run
MaxStores   == 2   \* stores alive in one Flow.run
MaxItems    == 3   \* length of a Batch / ParallelBatch input list
MaxRetries  == 3   \* largest max_retries a RetryNode is created with
MaxAgents   == 3   \* agents added to a MultiAgent
MaxParamSets == 2  \* length of the batch_params list of a BatchFlow.run

Names    == {"A", "B", "C"}        \* vertex names
GenNames == {"A", "B"}             \* names the unconstrained build draws from
Labels   == {"default", "retry"}   \* edge labels
None     == "<none>"               \* Option::None of a name or a string

\* ---------------------------------------------------------------- values
Str(s) == <<"str", s>>
Num7   == <<"num", "7">>

\* Value::as_str
as_str(v) == IF v[1] = "str" THEN v[2] ELSE None

\* HashMap::insert / HashMap::remove / HashMap::contains_key
Insert(m, k, v) == [x \in (DOMAIN m) \cup {k} |-> IF x = k THEN v ELSE m[x]]
Remove(m, k)    == [x \in (DOMAIN m) \ {k} |-> m[x]]
Has(m, k)       == k \in DOMAIN m

EmptyMap == [x \in {} |-> Num7]

\* The stores a caller passes to Flow.run: "action" unset, a string or a
\* number; "data" unset or set.
ActionValues == {Str("default"), Str("retry"), Num7}
InputMaps ==
    LET withA == {EmptyMap} \cup {Insert(EmptyMap, "action", v) : v \in ActionValues}
    IN  withA \cup {Insert(m, "data", Str("in")) : m \in withA}

VARIABLES
    \* Flow (core/flow.rs)
    nodes,        \* Flow.nodes: the names that have a node
    edges,        \* Flow.edges: a set of <<from, action, to>>
    start_node,   \* Flow.start_node
    buildOps,     \* add_node / add_edge calls so far
    pc,           \* where Flow.run is
    current,      \* current_node_name
    store,        \* the handle run holds (and returns)
    heap,         \* handle -> map
    pending,      \* node calls started and not yet resolved
    trace,        \* the vertices whose node was called, in order
    wrote,        \* whether the node call that resolved last wrote "action"
    lastLabel,    \* the label run read last
    labelled,     \* whether some node call wrote a non-default label
    halt,         \* why run left its loop
    input0,       \* the map run was given
    \* Batch / ParallelBatch (core/batch.rs)
    binput,       \* input: Vec<SharedStore>, a list of handles
    bheap,        \* handle -> map
    bpc,          \* where call is
    bnext,        \* the next item the iterator over input yields
    belems,       \* per item: its node call is "new", "running" or "done"
    bret,         \* per item: the handle its node call returned (0: none yet)
    bresults,     \* the Vec call returns
    counter,      \* a counter outside the executor, incremented by each call
    observed,     \* the counter values the calls saw, in the order they started
    border,       \* the items in the order their calls resolved
    \* RetryNode (core/node.rs)
    rpc,          \* where RetryNode::call is
    max_retries,  \* RetryNode.max_retries
    wait_millis,  \* RetryNode.wait_millis
    fallback,     \* RetryNode.fallback: <<>> is None, <<f>> is Some(f)
    rinput,       \* the map of the store call was given
    prep_res,     \* <<>> until prep resolved, then <<value>>
    last_err,     \* Option<anyhow::Error>: None or the error's message
    exec_res,     \* Option<Value>: <<>> is None, <<v>> is Some(v)
    attempt,      \* the loop variable of the for over 0..max_retries
    exec_val,     \* <<>> until the value for post is chosen, then <<value>>
    routput,      \* <<>> until post resolved, then <<the map it returned>>
    rcalls,       \* how often prep, exec, sleep, fallback and post were called
    slept,        \* the milliseconds slept so far
    outcomes,     \* per execute attempt so far: "ok" or "err"
    atExecEnd,    \* the map when the execute phase ended
    fbstore,      \* <<>>, or <<the map of the store the fallback returned>>
    postArgs,     \* <<>>, or <<what post was called with>>
    \* MultiAgent (patterns/multi_agent.rs)
    agents,       \* MultiAgent.agents: per agent the key and value it writes
    mpc,          \* where run is
    mheap,        \* handle -> map
    mstore,       \* the handle run was given (0: none yet)
    margs,        \* per agent: the handle its call was given
    mcalls,       \* per agent: how often it was called
    mphase,       \* per agent: "new", "started", "wrote" or "done"
    mwrites,      \* the agents in the order their writes were performed
    mret,         \* the handle run returned (0: none yet)
    \* MapReduce (patterns/mapreduce.rs); its mapper is the Batch above
    mrpc,         \* where run is
    mrTexts,      \* the "text" of each input store, in input order
    mrArg,        \* <<>>, or <<the list the reducer was called with>>
    mrCalls,      \* how often the reducer was called
    mrRet,        \* the handle the reducer returned (0: none yet)
    mrResult,     \* the handle run returned (0: none yet)
    \* Rag (patterns/rag.rs)
    gpc,          \* where ask is
    gheap,        \* handle -> map
    gquery,       \* the handle ask was given (0: none yet)
    gmid,         \* store_after_retrieval (0: none yet)
    garg,         \* the handle the generator was called with (0: none yet)
    gout,         \* the handle the generator returned (0: none yet)
    gresult,      \* the handle ask returned (0: none yet)
    gcalls,       \* how often the retriever and the generator were called
    gctx,         \* the context the retriever wrote
    \* Workflow (patterns/workflow.rs); its flow is the Flow above
    wparams,      \* Workflow.params
    wpc,          \* "idle", or the entry point running: "execute" or "call"
    winput,       \* the map execute or call was given
    wresult,      \* <<>>, or <<the map execute returned>>
    \* BatchFlow (patterns/batchflow.rs); its workflow is the one above
    bfpc,         \* where run is
    bfList,       \* batch_params
    bfIdx,        \* how many parameter sets the for loop has finished
    bfParams,     \* wf.params of the clone the loop body works with
    bfLock,       \* who holds the lock of shared: "free" or "run"
    bfShared,     \* shared: the handle run was given (0: none yet)
    bfBefore,     \* the map of shared when the loop body began
    bfAtCall,     \* the map of shared when wf.call was called
    bfRuns,       \* the parameter sets (by position) wf.call was called for
    bfInput,      \* the map of shared when run was called
    bfRet,        \* the handle run returned (0: none yet)
    \* Agent (patterns/agent.rs)
    apc,          \* where decide is
    a_max_retries, \* Agent.max_retries
    a_wait_millis, \* Agent.wait_millis
    aheap,        \* handle -> map
    ashared,      \* shared_store (0: none yet)
    aiter,        \* the iterations of the for loop begun so far
    result_store, \* Option<SharedStore>: <<>> is None, <<h>> is Some(h)
    acalls,       \* how often the node was called
    ares,         \* the handle the node's last call returned (0: none yet)
    ainput,       \* the map decide was given
    aout,         \* <<>>, or <<the map decide returned>>
    \* StructuredOutput (patterns/structured_output.rs)
    spc,          \* where call is
    sheap,        \* handle -> map
    sinput,       \* the handle call was given (0: none yet)
    raw,          \* generate's raw: the handle the node returned (0: none yet)
    sgen,         \* generate's Result: <<>>, <<"Ok", h>> or <<"Err">>
    sret,         \* the handle call returned (0: none yet)
    scalls,       \* how often the wrapped node was called
    sdirect,      \* what the node's call gave: [ret, heap] (<<>>: none yet)
    \* history of the builder calls on the Flow
    buildLog,     \* the add_node / add_edge calls made, in order
    \* agents of a MultiAgent that read a counter, suspend and write it back
    mread,        \* per agent: the number it read (-1: nothing yet)
    minput,       \* the map run was given
    \* an outer Flow that has the Flow above as one of its nodes
    opc,          \* where the outer run is
    ocurrent,     \* the outer run's current_node_name
    ostore,       \* the handle the outer run holds (0: none yet)
    otrace,       \* the outer vertices whose nodes were called, in order
    olabels       \* per outer step: <<vertex, the label read after it>>

flowVars == <<nodes, edges, start_node, buildOps, pc, current, store, heap,
              pending, trace, wrote, lastLabel, labelled, halt, input0>>

batchVars == <<binput, bheap, bpc, bnext, belems, bret, bresults, counter,
               observed, border>>

retryVars == <<rpc, max_retries, wait_millis, fallback, rinput, prep_res,
               last_err, exec_res, attempt, exec_val, routput, rcalls, slept,
               outcomes, atExecEnd, fbstore, postArgs>>

maVars == <<agents, mpc, mheap, mstore, margs, mcalls, mphase, mwrites, mret>>

mrVars == <<mrpc, mrTexts, mrArg, mrCalls, mrRet, mrResult>>

ragVars == <<gpc, gheap, gquery, gmid, garg, gout, gresult, gcalls, gctx>>

wfVars == <<wparams, wpc, winput, wresult>>

bfVars == <<bfpc, bfList, bfIdx, bfParams, bfLock, bfShared, bfBefore,
            bfAtCall, bfRuns, bfInput, bfRet>>

agentVars == <<apc, a_max_retries, a_wait_millis, aheap, ashared, aiter,
               result_store, acalls, ares, ainput, aout>>

soVars == <<spc, sheap, sinput, raw, sgen, sret, scalls, sdirect>>

logVars == <<buildLog>>

rmwVars == <<mread, minput>>

outerVars == <<opc, ocurrent, ostore, otrace, olabels>>

vars == <<flowVars, batchVars, retryVars, maVars, mrVars, ragVars, wfVars,
          bfVars, agentVars, soVars, logVars, rmwVars, outerVars>>

\* What an action of one component leaves alone: the other components.
notFlow  == <<batchVars, retryVars, maVars, mrVars, ragVars, wfVars, bfVars,
             agentVars, soVars, logVars,
             rmwVars,
             outerVars>>
notBatch == <<flowVars, retryVars, maVars, mrVars, ragVars, wfVars, bfVars,
             agentVars, soVars, logVars,
             rmwVars,
             outerVars>>
notRetry == <<flowVars, batchVars, maVars, mrVars, ragVars, wfVars, bfVars,
             agentVars, soVars, logVars,
             rmwVars,
             outerVars>>
notMA    == <<flowVars, batchVars, retryVars, mrVars, ragVars, wfVars, bfVars,
             agentVars, soVars, logVars,
             rmwVars,
             outerVars>>
notMR    == <<flowVars, retryVars, maVars, ragVars, wfVars, bfVars,
             agentVars, soVars, logVars,
             rmwVars,
             outerVars>>
notRag   == <<flowVars, batchVars, retryVars, maVars, mrVars, wfVars, bfVars,
             agentVars, soVars, logVars,
             rmwVars,
             outerVars>>
notWF    == <<batchVars, retryVars, maVars, mrVars, ragVars, bfVars,
             agentVars, soVars, logVars,
             rmwVars,
             outerVars>>
notBF    == <<batchVars, retryVars, maVars, mrVars, ragVars, wfVars,
             agentVars, soVars, logVars,
             rmwVars,
             outerVars>>
notAgent == <<flowVars, batchVars, retryVars, maVars, mrVars, ragVars, wfVars,
              bfVars, soVars, logVars, rmwVars,
             outerVars>>
notSO    == <<flowVars, batchVars, retryVars, maVars, mrVars, ragVars, wfVars,
              bfVars, agentVars, logVars, rmwVars,
             outerVars>>
notBuild == <<batchVars, retryVars, maVars, mrVars, ragVars, wfVars, bfVars,
              agentVars, soVars, rmwVars,
             outerVars>>
notOuter == <<batchVars, retryVars, maVars, mrVars, ragVars, wfVars, bfVars,
              agentVars, soVars, logVars, rmwVars>>
notRMW   == <<flowVars, batchVars, retryVars, mrVars, ragVars, wfVars, bfVars,
              agentVars, soVars, logVars,
             outerVars>>

\* ------------------------------------------------------------------ Flow

\* Flow::new
FlowNew ==
    /\ nodes = {}
    /\ edges = {}
    /\ start_node = None
    /\ buildOps = 0
    /\ pc = "idle"
    /\ current = None
    /\ store = 0
    /\ heap = <<>>
    /\ pending = 0
    /\ trace = <<>>
    /\ wrote = FALSE
    /\ lastLabel = None
    /\ labelled = FALSE
    /\ halt = "none"
    /\ input0 = EmptyMap

runVars == <<pc, current, store, heap, pending, trace, wrote, lastLabel,
             labelled, halt, input0>>

\* Faulty variant: every add_node moves the start.
add_node_LastStart(name) ==
    /\ start_node' = name
    /\ nodes' = nodes \cup {name}
    /\ edges' = {e \in edges : e[1] # name}

\* Faulty variant: the name's outgoing edges are kept.
add_node_KeepEdges(name) ==
    /\ start_node' = IF start_node = None THEN name ELSE start_node
    /\ nodes' = nodes \cup {name}
    /\ edges' = edges

\* Flow::add_node: the first name added becomes the start; the name's
\* outgoing edges are replaced by an empty map.
add_node(name) ==
    /\ start_node' = IF start_node = None THEN name ELSE start_node
    /\ nodes' = nodes \cup {name}
    /\ edges' = {e \in edges : e[1] # name}

\* Faulty variant: an existing (from, action) keeps its target.
add_edge_KeepFirst(from, action, to) ==
    /\ edges' = IF \E e \in edges : e[1] = from /\ e[2] = action
                THEN edges
                ELSE edges \cup {<<from, action, to>>}
    /\ UNCHANGED <<nodes, start_node>>

\* Flow::add_edge: HashMap::insert on edges[from] replaces the target of
\* an existing (from, action).
add_edge(from, action, to) ==
    /\ edges' = {e \in edges : ~(e[1] = from /\ e[2] = action)}
                    \cup {<<from, action, to>>}
    /\ UNCHANGED <<nodes, start_node>>

AddNode(name) ==
    /\ pc = "idle"
    /\ add_node(name)
    /\ buildOps' = buildOps + 1
    /\ UNCHANGED runVars
    /\ UNCHANGED notFlow

AddEdge(from, action, to) ==
    /\ pc = "idle"
    /\ add_edge(from, action, to)
    /\ buildOps' = buildOps + 1
    /\ UNCHANGED runVars
    /\ UNCHANGED notFlow

\* Flow::get_next_step, and the same lookup in run:
\* edges.get(from).and_then(|edges| edges.get(action))
get_next_step(from, action) ==
    IF \E e \in edges : e[1] = from /\ e[2] = action
    THEN (CHOOSE e \in edges : e[1] = from /\ e[2] = action)[3]
    ELSE None

\* Faulty variant: a value that is not a string is read by its text.
ActionLabel_ToString(m) ==
    IF Has(m, "action") THEN m["action"][2] ELSE "default"

\* Faulty variant: the label is not read from the store.
ActionLabel_Const(m) == "default"

\* run's label: store.get("action").and_then(as_str).unwrap_or("default")
ActionLabel(m) ==
    IF Has(m, "action") /\ as_str(m["action"]) # None
    THEN as_str(m["action"])
    ELSE "default"

\* What one node call does to the store it is given.  act: leave "action",
\* remove it, or insert a string or a number.  data: leave "data" or insert
\* it.  fresh: return a new store (a copy with the writes) and leave the
\* store it was given as it was, instead of writing in place.
NodeEffects ==
    [act : {"keep", "remove", "default", "retry", "num"},
     data : {"keep", "set"},
     fresh : BOOLEAN]

ApplyEffect(m, eff) ==
    LET m1 == CASE eff.act = "keep"    -> m
                [] eff.act = "remove"  -> Remove(m, "action")
                [] eff.act = "num"     -> Insert(m, "action", Num7)
                [] OTHER               -> Insert(m, "action", Str(eff.act))
    IN  IF eff.data = "set" THEN Insert(m1, "data", Str("out")) ELSE m1

buildVars == <<nodes, edges, start_node, buildOps>>

\* Faulty variant: the early return falls through to the strip of "action".
FlowRunStart_Strip(m) ==
    /\ pc = "idle"
    /\ heap' = <<m>>
    /\ store' = 1
    /\ input0' = m
    /\ IF start_node = None
       THEN /\ pc' = "strip"
            /\ halt' = "nostart"
            /\ UNCHANGED current
       ELSE /\ pc' = "loop"
            /\ current' = start_node
            /\ UNCHANGED halt
    /\ UNCHANGED <<buildVars, pending, trace, wrote, lastLabel, labelled>>
    /\ UNCHANGED notFlow

\* Faulty variant: run begins at some node of the flow, not at start_node.
FlowRunStart_AnyNode(m) ==
    /\ pc = "idle"
    /\ heap' = <<m>>
    /\ store' = 1
    /\ input0' = m
    /\ IF start_node = None
       THEN /\ pc' = "done"
            /\ halt' = "nostart"
            /\ UNCHANGED current
       ELSE /\ pc' = "loop"
            /\ current' = CHOOSE n \in nodes : \A n2 \in nodes : n # n2 => n2 = start_node
            /\ UNCHANGED halt
    /\ UNCHANGED <<buildVars, pending, trace, wrote, lastLabel, labelled>>
    /\ UNCHANGED notFlow

\* run, lines 48-53: no start node: return store, untouched.
FlowRunStart(m) ==
    /\ pc = "idle"
    /\ heap' = <<m>>
    /\ store' = 1
    /\ input0' = m
    /\ IF start_node = None
       THEN /\ pc' = "done"
            /\ halt' = "nostart"
            /\ UNCHANGED current
       ELSE /\ pc' = "loop"
            /\ current' = start_node
            /\ UNCHANGED halt
    /\ UNCHANGED <<buildVars, pending, trace, wrote, lastLabel, labelled>>
    /\ UNCHANGED notFlow

\* Faulty variant: a vertex without a node makes run return at once, without
\* the strip.
FlowCallNode_NoNodeReturn ==
    /\ pc = "loop"
    /\ IF current \in nodes
       THEN /\ Len(trace) < MaxSteps
            /\ pending' = pending + 1
            /\ trace' = Append(trace, current)
            /\ pc' = "await"
            /\ UNCHANGED halt
       ELSE /\ pc' = "done"
            /\ halt' = "nonode"
            /\ UNCHANGED <<pending, trace>>
    /\ UNCHANGED <<buildVars, current, store, heap, wrote, lastLabel, labelled,
                   input0>>
    /\ UNCHANGED notFlow

\* Faulty variant: run stops when it comes to a vertex a second time.
FlowCallNode_CycleCheck ==
    /\ pc = "loop"
    /\ IF current \in nodes /\ \A i \in 1..Len(trace) : trace[i] # current
       THEN /\ Len(trace) < MaxSteps
            /\ pending' = pending + 1
            /\ trace' = Append(trace, current)
            /\ pc' = "await"
            /\ UNCHANGED halt
       ELSE /\ pc' = "strip"
            /\ halt' = IF current \in nodes THEN "cycle" ELSE "nonode"
            /\ UNCHANGED <<pending, trace>>
    /\ UNCHANGED <<buildVars, current, store, heap, wrote, lastLabel, labelled,
                   input0>>
    /\ UNCHANGED notFlow

\* Faulty variant: the node call is started and not awaited.
FlowCallNode_NoAwait ==
    /\ pc = "loop"
    /\ IF current \in nodes
       THEN /\ Len(trace) < MaxSteps
            /\ pending' = pending + 1
            /\ trace' = Append(trace, current)
            /\ pc' = "route"
            /\ UNCHANGED halt
       ELSE /\ pc' = "strip"
            /\ halt' = "nonode"
            /\ UNCHANGED <<pending, trace>>
    /\ UNCHANGED <<buildVars, current, store, heap, wrote, lastLabel, labelled,
                   input0>>
    /\ UNCHANGED notFlow

\* run, lines 55-56: while let Some(node) = nodes.get(current): the node's
\* call starts and run awaits it.
FlowCallNode ==
    /\ pc = "loop"
    /\ IF current \in nodes
       THEN /\ Len(trace) < MaxSteps
            /\ pending' = pending + 1
            /\ trace' = Append(trace, current)
            /\ pc' = "await"
            /\ UNCHANGED halt
       ELSE /\ pc' = "strip"
            /\ halt' = "nonode"
            /\ UNCHANGED <<pending, trace>>
    /\ UNCHANGED <<buildVars, current, store, heap, wrote, lastLabel, labelled,
                   input0>>
    /\ UNCHANGED notFlow

\* The pending node call resolves: store = node.call(store).await
NodeResolve(eff) ==
    /\ pending > 0
    /\ eff.fresh => Len(heap) < MaxStores
    /\ LET m == ApplyEffect(heap[store], eff)
       IN  IF eff.fresh
           THEN /\ heap' = Append(heap, m)
                /\ store' = Len(heap) + 1
           ELSE /\ heap' = [heap EXCEPT ![store] = m]
                /\ UNCHANGED store
    /\ wrote' = (eff.act # "keep")
    /\ labelled' = (labelled \/ eff.act = "retry")
    /\ pending' = pending - 1
    /\ pc' = "route"
    /\ UNCHANGED <<buildVars, current, trace, lastLabel, halt, input0>>
    /\ UNCHANGED notFlow

\* Faulty variant: a label without an edge has the current node called again.
FlowRoute_Again ==
    /\ pc = "route"
    /\ LET action == ActionLabel(heap[store])
           next_node == get_next_step(current, action)
       IN  /\ lastLabel' = action
           /\ current' = IF next_node # None THEN next_node ELSE current
           /\ pc' = "loop"
           /\ UNCHANGED halt
    /\ UNCHANGED <<buildVars, store, heap, pending, trace, wrote, labelled, input0>>
    /\ UNCHANGED notFlow

\* Faulty variant: a label without an edge falls back to the "default" edge.
FlowRoute_Fallback ==
    /\ pc = "route"
    /\ LET action == ActionLabel(heap[store])
           exact == get_next_step(current, action)
           next_node == IF exact # None THEN exact
                        ELSE get_next_step(current, "default")
       IN  /\ lastLabel' = action
           /\ IF next_node # None
              THEN /\ current' = next_node
                   /\ pc' = "loop"
                   /\ UNCHANGED halt
              ELSE /\ pc' = "strip"
                   /\ halt' = "noedge"
                   /\ UNCHANGED current
    /\ UNCHANGED <<buildVars, store, heap, pending, trace, wrote, labelled, input0>>
    /\ UNCHANGED notFlow

\* run, lines 59-72: read the label, follow the edge or leave the loop.
FlowRoute ==
    /\ pc = "route"
    /\ LET action == ActionLabel(heap[store])
           next_node == get_next_step(current, action)
       IN  /\ lastLabel' = action
           /\ IF next_node # None
              THEN /\ current' = next_node
                   /\ pc' = "loop"
                   /\ UNCHANGED halt
              ELSE /\ pc' = "strip"
                   /\ halt' = "noedge"
                   /\ UNCHANGED current
    /\ UNCHANGED <<buildVars, store, heap, pending, trace, wrote, labelled, input0>>
    /\ UNCHANGED notFlow

\* Faulty variant: the final store keeps "action".
FlowStrip_Keep ==
    /\ pc = "strip"
    /\ pc' = "done"
    /\ UNCHANGED <<buildVars, current, store, heap, pending, trace, wrote,
                   lastLabel, labelled, halt, input0>>
    /\ UNCHANGED notFlow

\* run, lines 75-77: store.lock().unwrap().remove("action"); store
FlowStrip ==
    /\ pc = "strip"
    /\ heap' = [heap EXCEPT ![store] = Remove(@, "action")]
    /\ pc' = "done"
    /\ UNCHANGED <<buildVars, current, store, pending, trace, wrote, lastLabel,
                   labelled, halt, input0>>
    /\ UNCHANGED notFlow

FlowRunNext ==
    \/ \E m \in InputMaps : FlowRunStart(m)
    \/ FlowCallNode
    \/ \E eff \in NodeEffects : NodeResolve(eff)
    \/ FlowRoute
    \/ FlowStrip

\* Any flow of at most MaxBuildOps add_node / add_edge calls, then one run.
GenAddNode ==
    /\ buildOps < MaxBuildOps
    /\ \E name \in GenNames : AddNode(name)

GenAddEdge ==
    /\ buildOps < MaxBuildOps
    /\ \E from \in GenNames, action \in Labels, to \in GenNames :
           AddEdge(from, action, to)

FlowNext ==
    \/ GenAddNode
    \/ GenAddEdge
    \/ FlowRunNext

\* A run whose node calls all return, on a smaller set of inputs and node
\* effects: the store is empty or holds a stale "retry" label, and a node
\* only leaves, removes or writes "action", in place.
FairInputs  == {EmptyMap, Insert(EmptyMap, "action", Str("retry"))}
FairEffects == {eff \in NodeEffects : eff.data = "keep" /\ ~eff.fresh}

FairRunStart     == \E m \in FairInputs : FlowRunStart(m)
FairNodeResolves == \E eff \in FairEffects : NodeResolve(eff)

FlowFairNext ==
    \/ GenAddNode
    \/ GenAddEdge
    \/ FairRunStart
    \/ FlowCallNode
    \/ FairNodeResolves
    \/ FlowRoute
    \/ FlowStrip

\* Once run is called it is polled to completion, and every node call
\* returns.
FlowFairness ==
    /\ WF_vars(FlowCallNode)
    /\ WF_vars(FairNodeResolves)
    /\ WF_vars(FlowRoute)
    /\ WF_vars(FlowStrip)

\* Runs on stores whose "action" is any kind of JSON value: a number, a
\* boolean, null, an array or an object (none of them a string), or the
\* string "retry".
NonStrings ==
    {Num7, <<"bool", "true">>, <<"null", "null">>, <<"array", "[]">>,
     <<"object", "{}">>}
LabelValues == NonStrings \cup {Str("retry")}
LabelInputs == {EmptyMap} \cup {Insert(EmptyMap, "action", v) : v \in LabelValues}

LabelRunStart == \E m \in LabelInputs : FlowRunStart(m)

\* The pending node call resolves: the node has written v under "action" in
\* the store it was given, and returns that store.
NodeWrites(v) ==
    /\ pending > 0
    /\ heap' = [heap EXCEPT ![store] = Insert(@, "action", v)]
    /\ wrote' = TRUE
    /\ labelled' = (labelled \/ v = Str("retry"))
    /\ pending' = pending - 1
    /\ pc' = "route"
    /\ UNCHANGED <<buildVars, current, store, trace, lastLabel, halt, input0>>
    /\ UNCHANGED notFlow

LabelNodeWrites == \E v \in LabelValues : NodeWrites(v)
LabelNodeKeeps  == NodeResolve([act |-> "keep", data |-> "keep", fresh |-> FALSE])

LabelsNext ==
    \/ GenAddNode
    \/ GenAddEdge
    \/ LabelRunStart
    \/ FlowCallNode
    \/ LabelNodeWrites
    \/ LabelNodeKeeps
    \/ FlowRoute
    \/ FlowStrip

\* The flow A -default-> B -default-> C, built in this order, then one run.
ABCScript ==
    << <<"node", "A", "", "">>, <<"node", "B", "", "">>, <<"node", "C", "", "">>,
       <<"edge", "A", "default", "B">>, <<"edge", "B", "default", "C">> >>

ABCBuild ==
    /\ buildOps < Len(ABCScript)
    /\ LET op == ABCScript[buildOps + 1]
       IN  IF op[1] = "node" THEN AddNode(op[2]) ELSE AddEdge(op[2], op[3], op[4])

ABCNext ==
    \/ ABCBuild
    \/ FlowRunNext

\* ------------------------------------------------- Batch / ParallelBatch

\* Batch::new / ParallelBatch::new: nothing is running.
BatchNew ==
    /\ binput = <<>>
    /\ bheap = <<>>
    /\ bpc = "idle"
    /\ bnext = 1
    /\ belems = <<>>
    /\ bret = <<>>
    /\ bresults = <<>>
    /\ counter = 0
    /\ observed = <<>>
    /\ border = <<>>

Idx(i) == <<"num", ToString(i)>>

\* An input list of n independent stores, store i tagged "idx" = i.
TakeInput(n) ==
    /\ binput' = [i \in 1..n |-> i]
    /\ bheap' = [i \in 1..n |-> Insert(EmptyMap, "idx", Idx(i))]
    /\ belems' = [i \in 1..n |-> "new"]
    /\ bret' = [i \in 1..n |-> 0]
    /\ bnext' = 1

\* What the wrapped node does to an item: it writes "out", err: it also
\* writes "error" (an error result); fresh: it returns a new store.
BatchEffects == [err : BOOLEAN, fresh : BOOLEAN]

ApplyBatchEffect(m, eff) ==
    LET m1 == Insert(m, "out", Str("out"))
    IN  IF eff.err THEN Insert(m1, "error", Str("failed")) ELSE m1

\* node.call(store) is polled first: the call on item i starts and sees
\* the counter.
NodeStart(i) ==
    /\ belems[i] = "new"
    /\ belems' = [belems EXCEPT ![i] = "running"]
    /\ observed' = Append(observed, counter)

\* The running call on item i resolves with the store it returns.
NodeFinish(i, eff) ==
    /\ belems[i] = "running"
    /\ belems' = [belems EXCEPT ![i] = "done"]
    /\ LET m == ApplyBatchEffect(bheap[binput[i]], eff)
       IN  IF eff.fresh
           THEN /\ bheap' = Append(bheap, m)
                /\ bret' = [bret EXCEPT ![i] = Len(bheap) + 1]
           ELSE /\ bheap' = [bheap EXCEPT ![binput[i]] = m]
                /\ bret' = [bret EXCEPT ![i] = binput[i]]
    /\ counter' = counter + 1
    /\ border' = Append(border, i)

NodeResolves ==
    /\ \E i \in 1..Len(binput) : \E eff \in BatchEffects : NodeFinish(i, eff)
    /\ UNCHANGED <<binput, bpc, bnext, bresults, observed>>
    /\ UNCHANGED notBatch

\* Batch::call, lines 22-28
BatchCall(n) ==
    /\ bpc = "idle"
    /\ TakeInput(n)
    /\ bpc' = "loop"
    /\ UNCHANGED <<bresults, counter, observed, border>>
    /\ UNCHANGED notBatch

\* Faulty variant: the call on the next item starts without awaiting this one.
BatchCallNode_NoAwait ==
    /\ bpc = "loop"
    /\ bnext <= Len(binput)
    /\ NodeStart(bnext)
    /\ bnext' = bnext + 1
    /\ bpc' = "loop"
    /\ UNCHANGED <<binput, bheap, bret, bresults, counter, border>>
    /\ UNCHANGED notBatch

\* Batch::call, lines 29-30: for store in input { node.call(store).await
BatchCallNode ==
    /\ bpc = "loop"
    /\ bnext <= Len(binput)
    /\ NodeStart(bnext)
    /\ bnext' = bnext + 1
    /\ bpc' = "await"
    /\ UNCHANGED <<binput, bheap, bret, bresults, counter, border>>
    /\ UNCHANGED notBatch

\* Batch::call, lines 30-31: the awaited call has resolved:
\* results.push(result)
BatchPush ==
    /\ bpc = "await"
    /\ belems[bnext - 1] = "done"
    /\ bresults' = Append(bresults, bret[bnext - 1])
    /\ bpc' = "loop"
    /\ UNCHANGED <<binput, bheap, bnext, belems, bret, counter, observed, border>>
    /\ UNCHANGED notBatch

\* Batch::call, lines 32-33: the list is exhausted: results
BatchReturn ==
    /\ bpc = "loop"
    /\ bnext > Len(binput)
    /\ bpc' = "done"
    /\ UNCHANGED <<binput, bheap, bnext, belems, bret, bresults, counter,
                   observed, border>>
    /\ UNCHANGED notBatch

BatchNext ==
    \/ \E n \in 0..MaxItems : BatchCall(n)
    \/ BatchCallNode
    \/ NodeResolves
    \/ BatchPush
    \/ BatchReturn

\* ParallelBatch::call, lines 54-63: one future per item, none polled yet.
PBCall(n) ==
    /\ bpc = "idle"
    /\ TakeInput(n)
    /\ bpc' = "join"
    /\ UNCHANGED <<bresults, counter, observed, border>>
    /\ UNCHANGED notBatch

\* join_all's first poll polls the futures in list order: each node call
\* starts.
PBPoll ==
    /\ bpc = "join"
    /\ bnext <= Len(binput)
    /\ NodeStart(bnext)
    /\ bnext' = bnext + 1
    /\ UNCHANGED <<binput, bheap, bpc, bret, bresults, counter, border>>
    /\ UNCHANGED notBatch

AllDone == \A i \in 1..Len(binput) : belems[i] = "done"

\* Faulty variant: the outputs in the order the calls resolved.
JoinAllOutput_Completion == [k \in 1..Len(border) |-> bret[border[k]]]

\* join_all's output: the futures' outputs in the order of the futures.
JoinAllOutput == [i \in 1..Len(binput) |-> bret[i]]

\* Faulty variant: the join gives up at the first error result (try_join_all).
PBJoin_FirstError ==
    /\ bpc = "join"
    /\ \/ AllDone
       \/ \E i \in 1..Len(binput) :
              belems[i] = "done" /\ Has(bheap[bret[i]], "error")
    /\ bresults' = JoinAllOutput_Completion
    /\ bpc' = "done"
    /\ UNCHANGED <<binput, bheap, bnext, belems, bret, counter, observed, border>>
    /\ UNCHANGED notBatch

\* ParallelBatch::call, line 65: join_all(futures).await resolves once
\* every future has.
PBJoin ==
    /\ bpc = "join"
    /\ AllDone
    /\ bresults' = JoinAllOutput
    /\ bpc' = "done"
    /\ UNCHANGED <<binput, bheap, bnext, belems, bret, counter, observed, border>>
    /\ UNCHANGED notBatch

ParallelBatchNext ==
    \/ \E n \in 0..MaxItems : PBCall(n)
    \/ PBPoll
    \/ NodeResolves
    \/ PBJoin

\* ------------------------------------------------------------- RetryNode

\* No retry node exists yet.
RetryNew ==
    /\ rpc = "none"
    /\ max_retries = 0
    /\ wait_millis = 0
    /\ fallback = <<>>
    /\ rinput = EmptyMap
    /\ prep_res = <<>>
    /\ last_err = None
    /\ exec_res = <<>>
    /\ attempt = 0
    /\ exec_val = <<>>
    /\ routput = <<>>
    /\ rcalls = [prep |-> 0, exec |-> 0, sleep |-> 0, fallback |-> 0, post |-> 0]
    /\ slept = 0
    /\ outcomes = <<>>
    /\ atExecEnd = EmptyMap
    /\ fbstore = <<>>
    /\ postArgs = <<>>

\* The wait_millis and the fallbacks a node is created with.  A fallback
\* either writes into the store it is given and returns that store, or
\* builds and returns a store of its own.
Waits     == {0, 50}
Fallbacks == {<<>>, <<"inplace">>, <<"fresh">>}

\* What prep may return, and the values a successful exec may return.
PrepValues == {Str("p1"), Str("p2")}
ExecValues == {Str("v1"), Str("v2")}

\* One exec attempt: it fails or returns a value, and may write to the store.
ExecEffects ==
    {[ok |-> TRUE, val |-> v, write |-> w] : v \in ExecValues, w \in BOOLEAN}
    \cup {[ok |-> FALSE, val |-> Str(""), write |-> w] : w \in BOOLEAN}

\* The error of the attempt-th execute call (attempt counts from 0).
ErrOf(a) == "e" \o ToString(a + 1)

\* format!("{:?}", last_err) of an Option
DebugOpt(e) == IF e = None THEN "None" ELSE "Some(" \o e \o ")"

\* json!({"error": "fallback triggered"})
fallback_val == <<"error", "fallback triggered">>

\* json!({"error": format!("Node failed after {} retries: {:?}", ..)})
ErrorMarker(n, e) ==
    <<"error", "Node failed after " \o ToString(n) \o " retries: " \o DebugOpt(e)>>

rloopVars == <<max_retries, wait_millis, fallback, prep_res, exec_val, routput,
               atExecEnd, fbstore, postArgs>>

\* create_retry_node
create_retry_node(mr, wm, fb) ==
    /\ rpc = "none"
    /\ rpc' = "idle"
    /\ max_retries' = mr
    /\ wait_millis' = wm
    /\ fallback' = fb
    /\ UNCHANGED <<rinput, prep_res, last_err, exec_res, attempt, exec_val,
                   routput, rcalls, slept, outcomes, atExecEnd, fbstore, postArgs>>
    /\ UNCHANGED notRetry

\* call: prep(input.clone()) is called and awaited.
RetryCall(m) ==
    /\ rpc = "idle"
    /\ rpc' = "prep"
    /\ rinput' = m
    /\ rcalls' = [rcalls EXCEPT !.prep = @ + 1]
    /\ UNCHANGED <<max_retries, wait_millis, fallback, prep_res, last_err,
                   exec_res, attempt, exec_val, routput, slept, outcomes,
                   atExecEnd, fbstore, postArgs>>
    /\ UNCHANGED notRetry

\* prep resolves; last_err and exec_res start as None and the loop begins.
PrepResolve(p) ==
    /\ rpc = "prep"
    /\ rpc' = "loop"
    /\ prep_res' = <<p>>
    /\ last_err' = None
    /\ exec_res' = <<>>
    /\ attempt' = 0
    /\ UNCHANGED <<max_retries, wait_millis, fallback, rinput, exec_val, routput,
                   rcalls, slept, outcomes, atExecEnd, fbstore, postArgs>>
    /\ UNCHANGED notRetry

\* Faulty variant: the loop goes on after a successful attempt.
ExecStart_NoBreak ==
    /\ rpc = "loop"
    /\ attempt < max_retries
    /\ rpc' = "exec"
    /\ rcalls' = [rcalls EXCEPT !.exec = @ + 1]
    /\ UNCHANGED <<rinput, last_err, exec_res, attempt, slept, outcomes>>
    /\ UNCHANGED rloopVars
    /\ UNCHANGED notRetry

\* Faulty variant: prep is run again before a retry.
ExecStart_RePrep ==
    /\ rpc = "loop"
    /\ exec_res = <<>>
    /\ attempt < max_retries
    /\ rpc' = "exec"
    /\ rcalls' = [rcalls EXCEPT !.exec = @ + 1,
                                !.prep = IF attempt > 0 THEN @ + 1 ELSE @]
    /\ prep_res' = IF attempt > 0 THEN <<Str("p2")>> ELSE prep_res
    /\ UNCHANGED <<rinput, last_err, exec_res, attempt, slept, outcomes>>
    /\ UNCHANGED <<max_retries, wait_millis, fallback, exec_val, routput,
                   atExecEnd, fbstore, postArgs>>
    /\ UNCHANGED notRetry

\* The loop takes the next attempt and calls exec(&input, &prep_res).
ExecStart ==
    /\ rpc = "loop"
    /\ exec_res = <<>>
    /\ attempt < max_retries
    /\ rpc' = "exec"
    /\ rcalls' = [rcalls EXCEPT !.exec = @ + 1]
    /\ UNCHANGED <<rinput, last_err, exec_res, attempt, slept, outcomes>>
    /\ UNCHANGED rloopVars
    /\ UNCHANGED notRetry

\* Faulty variant: a failed attempt is never followed by a sleep.
ExecResolve_NoSleep(eff) ==
    /\ rpc = "exec"
    /\ rinput' = IF eff.write THEN Insert(rinput, "tried", Idx(attempt + 1))
                 ELSE rinput
    /\ outcomes' = Append(outcomes, IF eff.ok THEN "ok" ELSE "err")
    /\ IF eff.ok
       THEN /\ exec_res' = <<eff.val>>
            /\ rpc' = "loop"
            /\ UNCHANGED <<last_err, attempt>>
       ELSE /\ last_err' = ErrOf(attempt)
            /\ UNCHANGED exec_res
            /\ rpc' = "loop" /\ attempt' = attempt + 1
    /\ UNCHANGED <<rcalls, slept>>
    /\ UNCHANGED rloopVars
    /\ UNCHANGED notRetry

\* Faulty variant: a failed attempt is followed by a sleep even when it was
\* the last one.
ExecResolve_SleepAfterLast(eff) ==
    /\ rpc = "exec"
    /\ rinput' = IF eff.write THEN Insert(rinput, "tried", Idx(attempt + 1))
                 ELSE rinput
    /\ outcomes' = Append(outcomes, IF eff.ok THEN "ok" ELSE "err")
    /\ IF eff.ok
       THEN /\ exec_res' = <<eff.val>>
            /\ rpc' = "loop"
            /\ UNCHANGED <<last_err, attempt>>
       ELSE /\ last_err' = ErrOf(attempt)
            /\ UNCHANGED exec_res
            /\ IF wait_millis > 0
               THEN rpc' = "sleep" /\ UNCHANGED attempt
               ELSE rpc' = "loop" /\ attempt' = attempt + 1
    /\ UNCHANGED <<rcalls, slept>>
    /\ UNCHANGED rloopVars
    /\ UNCHANGED notRetry

\* exec resolves.  Ok(val): exec_res is set and the loop is left.  Err(e):
\* last_err is set; a sleep follows if another attempt does and wait_millis
\* is positive.
ExecResolve(eff) ==
    /\ rpc = "exec"
    /\ rinput' = IF eff.write THEN Insert(rinput, "tried", Idx(attempt + 1))
                 ELSE rinput
    /\ outcomes' = Append(outcomes, IF eff.ok THEN "ok" ELSE "err")
    /\ IF eff.ok
       THEN /\ exec_res' = <<eff.val>>
            /\ rpc' = "loop"
            /\ UNCHANGED <<last_err, attempt>>
       ELSE /\ last_err' = ErrOf(attempt)
            /\ UNCHANGED exec_res
            /\ IF attempt + 1 < max_retries /\ wait_millis > 0
               THEN rpc' = "sleep" /\ UNCHANGED attempt
               ELSE rpc' = "loop" /\ attempt' = attempt + 1
    /\ UNCHANGED <<rcalls, slept>>
    /\ UNCHANGED rloopVars
    /\ UNCHANGED notRetry

\* tokio::time::sleep(wait_millis) elapses; the loop goes on.
SleepDone ==
    /\ rpc = "sleep"
    /\ rpc' = "loop"
    /\ attempt' = attempt + 1
    /\ rcalls' = [rcalls EXCEPT !.sleep = @ + 1]
    /\ slept' = slept + wait_millis
    /\ UNCHANGED <<rinput, last_err, exec_res, outcomes>>
    /\ UNCHANGED rloopVars
    /\ UNCHANGED notRetry

\* The for loop is over: exec succeeded (break) or 0..max_retries is used up.
ExecPhaseOver ==
    /\ rpc = "loop"
    /\ (exec_res # <<>> \/ attempt >= max_retries)

\* post(input, &prep_res, &exec_val) is called with value v; calls counts
\* the calls made before it.
CallPost(v, calls) ==
    /\ exec_val' = <<v>>
    /\ postArgs' = <<[store |-> rinput', prep |-> prep_res[1], val |-> v]>>
    /\ rcalls' = [calls EXCEPT !.post = @ + 1]
    /\ rpc' = "post"

\* if let Some(val) = exec_res: exec_val is val.
ExecValOk ==
    /\ ExecPhaseOver
    /\ exec_res # <<>>
    /\ atExecEnd' = rinput
    /\ UNCHANGED <<rinput, fbstore>>
    /\ CallPost(exec_res[1], rcalls)
    /\ UNCHANGED <<max_retries, wait_millis, fallback, prep_res, last_err,
                   exec_res, attempt, routput, slept, outcomes>>
    /\ UNCHANGED notRetry

\* else if let Some(fallback_fn) = fallback, and last_err is None:
\* last_err.unwrap() panics before fallback_fn is called.
ExecValUnwrapNone ==
    /\ ExecPhaseOver
    /\ exec_res = <<>>
    /\ fallback # <<>>
    /\ last_err = None
    /\ atExecEnd' = rinput
    /\ rpc' = "panic"
    /\ UNCHANGED <<max_retries, wait_millis, fallback, rinput, prep_res, last_err,
                   exec_res, attempt, exec_val, routput, rcalls, slept, outcomes,
                   fbstore, postArgs>>
    /\ UNCHANGED notRetry

\* Faulty variant: what the fallback returns is merged into input.
FallbackInput_Merge(kind, m, e) == Insert(m, "fallback", Str(e))

\* What fallback_fn(&input, &prep_res, &err) does to the map of input, and
\* the map of the store it returns.
FallbackInput(kind, m, e) ==
    IF kind = "inplace" THEN Insert(m, "fallback", Str(e)) ELSE m
FallbackStore(kind, m, e) ==
    IF kind = "inplace" THEN Insert(m, "fallback", Str(e))
    ELSE Insert(EmptyMap, "fallback", Str(e))

\* else if let Some(fallback_fn) = fallback: fallback_fn is called, the store
\* it returns is bound to _fallback_store, exec_val is fallback_val.
ExecValFallback ==
    /\ ExecPhaseOver
    /\ exec_res = <<>>
    /\ fallback # <<>>
    /\ last_err # None
    /\ atExecEnd' = rinput
    /\ rinput' = FallbackInput(fallback[1], rinput, last_err)
    /\ fbstore' = <<FallbackStore(fallback[1], rinput, last_err)>>
    /\ CallPost(fallback_val, [rcalls EXCEPT !.fallback = @ + 1])
    /\ UNCHANGED <<max_retries, wait_millis, fallback, prep_res, last_err,
                   exec_res, attempt, routput, slept, outcomes>>
    /\ UNCHANGED notRetry

\* else: exec_val is the error marker.
ExecValMarker ==
    /\ ExecPhaseOver
    /\ exec_res = <<>>
    /\ fallback = <<>>
    /\ atExecEnd' = rinput
    /\ UNCHANGED <<rinput, fbstore>>
    /\ CallPost(ErrorMarker(max_retries, last_err), rcalls)
    /\ UNCHANGED <<max_retries, wait_millis, fallback, prep_res, last_err,
                   exec_res, attempt, routput, slept, outcomes>>
    /\ UNCHANGED notRetry

\* post resolves: it wrote "result" = exec_val and returned the store.
PostResolve ==
    /\ rpc = "post"
    /\ rpc' = "done"
    /\ rinput' = Insert(rinput, "result", exec_val[1])
    /\ routput' = <<rinput'>>
    /\ UNCHANGED <<max_retries, wait_millis, fallback, prep_res, last_err,
                   exec_res, attempt, exec_val, rcalls, slept, outcomes,
                   atExecEnd, fbstore, postArgs>>
    /\ UNCHANGED notRetry

RetryNext ==
    \/ \E mr \in 0..MaxRetries, wm \in Waits, fb \in Fallbacks :
           create_retry_node(mr, wm, fb)
    \/ \E m \in {EmptyMap, Insert(EmptyMap, "data", Str("in"))} : RetryCall(m)
    \/ \E p \in PrepValues : PrepResolve(p)
    \/ ExecStart
    \/ \E eff \in ExecEffects : ExecResolve(eff)
    \/ SleepDone
    \/ ExecValOk
    \/ ExecValUnwrapNone
    \/ ExecValFallback
    \/ ExecValMarker
    \/ PostResolve

\* ------------------------------------------------------------ MultiAgent

\* MultiAgent::new
MultiAgentNew ==
    /\ agents = <<>>
    /\ mpc = "build"
    /\ mheap = <<>>
    /\ mstore = 0
    /\ margs = <<>>
    /\ mcalls = <<>>
    /\ mphase = <<>>
    /\ mwrites = <<>>
    /\ mret = 0

\* The keys agents write.  Agent i writes the value "a<i>".
AgentKeys == {"x", "y", "z"}
AgentValue(i) == Str("a" \o ToString(i))

\* MultiAgent::add_agent, with an agent that performs one locked write of
\* its value under key k.
add_agent(k) ==
    /\ mpc = "build"
    /\ Len(agents) < MaxAgents
    /\ agents' = Append(agents, [key |-> k, val |-> AgentValue(Len(agents) + 1)])
    /\ UNCHANGED <<mpc, mheap, mstore, margs, mcalls, mphase, mwrites, mret>>
    /\ UNCHANGED notMA

\* Faulty variant: every agent is called with a copy of the store.
MARun_Copy(m) ==
    /\ mpc = "build"
    /\ mpc' = "joining"
    /\ mheap' = [h \in 1..(Len(agents) + 1) |-> m]
    /\ mstore' = 1
    /\ margs' = [i \in 1..Len(agents) |-> i + 1]
    /\ mcalls' = [i \in 1..Len(agents) |-> 1]
    /\ mphase' = [i \in 1..Len(agents) |-> "new"]
    /\ UNCHANGED <<agents, mwrites, mret>>
    /\ UNCHANGED notMA

\* run(store): join_all takes the iterator, which calls every agent once,
\* in the order of agents, with store.clone(): the same handle.
MARun(m) ==
    /\ mpc = "build"
    /\ mpc' = "joining"
    /\ mheap' = <<m>>
    /\ mstore' = 1
    /\ margs' = [i \in 1..Len(agents) |-> 1]
    /\ mcalls' = [i \in 1..Len(agents) |-> 1]
    /\ mphase' = [i \in 1..Len(agents) |-> "new"]
    /\ UNCHANGED <<agents, mwrites, mret>>
    /\ UNCHANGED notMA

\* join_all polls the futures for the first time in their order.
MAPoll ==
    /\ mpc = "joining"
    /\ \E i \in 1..Len(agents) :
           /\ mphase[i] = "new"
           /\ \A j \in 1..(i - 1) : mphase[j] # "new"
           /\ mphase' = [mphase EXCEPT ![i] = "started"]
    /\ UNCHANGED <<agents, mpc, mheap, mstore, margs, mcalls, mwrites, mret>>
    /\ UNCHANGED notMA

\* Faulty variant: the write keeps a value that is already there.
AgentWrite_KeepFirst(i) ==
    /\ mpc = "joining"
    /\ mphase[i] = "started"
    /\ mphase' = [mphase EXCEPT ![i] = "wrote"]
    /\ mheap' = [mheap EXCEPT ![margs[i]] =
                     IF Has(@, agents[i].key) THEN @
                     ELSE Insert(@, agents[i].key, agents[i].val)]
    /\ mwrites' = Append(mwrites, i)
    /\ UNCHANGED <<agents, mpc, mstore, margs, mcalls, mret>>
    /\ UNCHANGED notMA

\* Agent i locks the store it was given, inserts its value and unlocks.
AgentWrite(i) ==
    /\ mpc = "joining"
    /\ mphase[i] = "started"
    /\ mphase' = [mphase EXCEPT ![i] = "wrote"]
    /\ mheap' = [mheap EXCEPT ![margs[i]] = Insert(@, agents[i].key, agents[i].val)]
    /\ mwrites' = Append(mwrites, i)
    /\ UNCHANGED <<agents, mpc, mstore, margs, mcalls, mret>>
    /\ UNCHANGED notMA

\* The call of agent i resolves.
AgentResolve(i) ==
    /\ mpc = "joining"
    /\ mphase[i] = "wrote"
    /\ mphase' = [mphase EXCEPT ![i] = "done"]
    /\ UNCHANGED <<agents, mpc, mheap, mstore, margs, mcalls, mwrites, mret>>
    /\ UNCHANGED notMA

\* Some agent takes its next step.
AgentWrites   == \E i \in 1..Len(agents) : AgentWrite(i)
AgentResolves == \E i \in 1..Len(agents) : AgentResolve(i)

\* Faulty variant: run resolves once some agent's call has.
MAJoin_Any ==
    /\ mpc = "joining"
    /\ \E i \in 1..Len(agents) : mphase[i] = "done"
    /\ mpc' = "done"
    /\ mret' = mstore
    /\ UNCHANGED <<agents, mheap, mstore, margs, mcalls, mphase, mwrites>>
    /\ UNCHANGED notMA

\* join_all(futures).await resolves once every call has; run returns store.
MAJoin ==
    /\ mpc = "joining"
    /\ \A i \in 1..Len(agents) : mphase[i] = "done"
    /\ mpc' = "done"
    /\ mret' = mstore
    /\ UNCHANGED <<agents, mheap, mstore, margs, mcalls, mphase, mwrites>>
    /\ UNCHANGED notMA

MultiAgentNext ==
    \/ \E k \in AgentKeys : add_agent(k)
    \/ \E m \in {EmptyMap, Insert(EmptyMap, "x", Str("old"))} : MARun(m)
    \/ MAPoll
    \/ AgentWrites
    \/ AgentResolves
    \/ MAJoin

\* ------------------------------------------------------------- MapReduce

\* MapReduce::new: nothing is running.
MapReduceNew ==
    /\ mrpc = "idle"
    /\ mrTexts = <<>>
    /\ mrArg = <<>>
    /\ mrCalls = 0
    /\ mrRet = 0
    /\ mrResult = 0

\* The texts of the input stores, and str::len of a text.
Texts == {"a", "bb"}
StrLen(t) == IF t = "a" THEN 1 ELSE 2

\* Value::as_u64 of a number: the number its text denotes.
NumOf(v) == CHOOSE n \in 0..(2 * (MaxItems + 1)) : ToString(n) = v[2]

RECURSIVE SumLen(_, _)
\* The reducer's sum of "len" over the stores of list hs, in heap h.
SumLen(h, hs) ==
    IF hs = <<>> THEN 0 ELSE NumOf(h[Head(hs)]["len"]) + SumLen(h, Tail(hs))

RECURSIVE JoinText(_, _)
\* The reducer's concatenation of "text" over the stores of list hs.
JoinText(h, hs) ==
    IF hs = <<>> THEN "" ELSE as_str(h[Head(hs)]["text"]) \o JoinText(h, Tail(hs))

\* run(inputs): self.mapper.call(inputs) is called; Batch::call takes the
\* list, one store per text.
MRRun(ts) ==
    /\ mrpc = "idle"
    /\ bpc = "idle"
    /\ mrpc' = "mapping"
    /\ mrTexts' = ts
    /\ binput' = [i \in 1..Len(ts) |-> i]
    /\ bheap' = [i \in 1..Len(ts) |-> Insert(EmptyMap, "text", Str(ts[i]))]
    /\ belems' = [i \in 1..Len(ts) |-> "new"]
    /\ bret' = [i \in 1..Len(ts) |-> 0]
    /\ bnext' = 1
    /\ bpc' = "loop"
    /\ UNCHANGED <<bresults, counter, observed, border>>
    /\ UNCHANGED <<mrArg, mrCalls, mrRet, mrResult>>
    /\ UNCHANGED notMR

\* The mapper's node resolves on item i: it wrote "len", the length of
\* "text", into the store it was given or into a new one, and returns it.
MapFinish(i, fresh) ==
    /\ belems[i] = "running"
    /\ belems' = [belems EXCEPT ![i] = "done"]
    /\ LET m == Insert(bheap[binput[i]], "len",
                       Idx(StrLen(as_str(bheap[binput[i]]["text"]))))
       IN  IF fresh
           THEN /\ bheap' = Append(bheap, m)
                /\ bret' = [bret EXCEPT ![i] = Len(bheap) + 1]
           ELSE /\ bheap' = [bheap EXCEPT ![binput[i]] = m]
                /\ bret' = [bret EXCEPT ![i] = binput[i]]
    /\ counter' = counter + 1
    /\ border' = Append(border, i)

MapperResolves ==
    /\ mrpc = "mapping"
    /\ \E i \in 1..Len(binput) : \E fresh \in BOOLEAN : MapFinish(i, fresh)
    /\ UNCHANGED <<binput, bpc, bnext, bresults, observed>>
    /\ UNCHANGED mrVars
    /\ UNCHANGED notMR

\* Faulty variant: the reducer is called while the mapper is still running.
MRReduce_Early ==
    /\ mrpc = "mapping"
    /\ bpc \in {"loop", "done"}
    /\ mrpc' = "reducing"
    /\ mrArg' = <<bresults>>
    /\ mrCalls' = mrCalls + 1
    /\ UNCHANGED <<mrTexts, mrRet, mrResult>>
    /\ UNCHANGED batchVars
    /\ UNCHANGED notMR

\* self.mapper.call(inputs).await has resolved with mapped:
\* self.reducer.call(mapped) is called.
MRReduce ==
    /\ mrpc = "mapping"
    /\ bpc = "done"
    /\ mrpc' = "reducing"
    /\ mrArg' = <<bresults>>
    /\ mrCalls' = mrCalls + 1
    /\ UNCHANGED <<mrTexts, mrRet, mrResult>>
    /\ UNCHANGED batchVars
    /\ UNCHANGED notMR

\* The store a reducer that sums "len" and joins "text" builds from list hs.
Reduced(h, hs) ==
    Insert(Insert(EmptyMap, "total", Idx(SumLen(h, hs))),
           "joined", Str(JoinText(h, hs)))

\* The reducer resolves with a new store; run returns what it returned.
ReducerResolve ==
    /\ mrpc = "reducing"
    /\ mrpc' = "done"
    /\ bheap' = Append(bheap, Reduced(bheap, mrArg[1]))
    /\ mrRet' = Len(bheap) + 1
    /\ mrResult' = mrRet'
    /\ UNCHANGED <<binput, bpc, bnext, belems, bret, bresults, counter,
                   observed, border>>
    /\ UNCHANGED <<mrTexts, mrArg, mrCalls>>
    /\ UNCHANGED notMR

\* The lists of at most n texts.
TextLists(n) == UNION {[1..k -> Texts] : k \in 0..n}

MapReduceNext ==
    \/ \E ts \in TextLists(MaxItems) : MRRun(ts)
    \/ BatchCallNode
    \/ MapperResolves
    \/ BatchPush
    \/ BatchReturn
    \/ MRReduce
    \/ ReducerResolve

\* ------------------------------------- MultiAgent with counting agents

\* The keys the counting agents use, and the maps run is given.
CounterKeys == {"x", "y"}
CounterMaps == {EmptyMap, Insert(EmptyMap, "x", Idx(1))}

\* The number under key k of map m; an absent key counts as 0.
CounterOf(m, k) == IF Has(m, k) THEN NumOf(m[k]) ELSE 0

\* MultiAgent::add_agent, with an agent that reads the number under k (under
\* the lock), suspends, and then writes that number plus one (under the
\* lock).
add_counter_agent(k) ==
    /\ mpc = "build"
    /\ Len(agents) < MaxAgents
    /\ agents' = Append(agents, [key |-> k, val |-> Str("incr")])
    /\ mread' = Append(mread, -1)
    /\ UNCHANGED <<mpc, mheap, mstore, margs, mcalls, mphase, mwrites, mret, minput>>
    /\ UNCHANGED notRMW

\* run(store), as MARun, on a flow of counting agents.
CounterRun(m) ==
    /\ mpc = "build"
    /\ mpc' = "joining"
    /\ mheap' = <<m>>
    /\ mstore' = 1
    /\ margs' = [i \in 1..Len(agents) |-> 1]
    /\ mcalls' = [i \in 1..Len(agents) |-> 1]
    /\ mphase' = [i \in 1..Len(agents) |-> "new"]
    /\ minput' = m
    /\ UNCHANGED <<agents, mwrites, mret, mread>>
    /\ UNCHANGED notRMW

\* Agent i locks the store, reads its key, unlocks and suspends.
AgentRead(i) ==
    /\ mpc = "joining"
    /\ mphase[i] = "started"
    /\ mphase' = [mphase EXCEPT ![i] = "read"]
    /\ mread' = [mread EXCEPT ![i] = CounterOf(mheap[margs[i]], agents[i].key)]
    /\ UNCHANGED <<agents, mpc, mheap, mstore, margs, mcalls, mwrites, mret, minput>>
    /\ UNCHANGED notRMW

\* Faulty variant: the agent writes into a copy of the store.
AgentIncr_Clone(i) ==
    /\ mpc = "joining"
    /\ mphase[i] = "read"
    /\ mphase' = [mphase EXCEPT ![i] = "wrote"]
    /\ mheap' = Append(mheap, Insert(mheap[margs[i]], agents[i].key,
                                      Idx(mread[i] + 1)))
    /\ mwrites' = Append(mwrites, i)
    /\ UNCHANGED <<agents, mpc, mstore, margs, mcalls, mret, mread, minput>>
    /\ UNCHANGED notRMW

\* Agent i resumes, locks the store and writes what it read plus one.
AgentIncr(i) ==
    /\ mpc = "joining"
    /\ mphase[i] = "read"
    /\ mphase' = [mphase EXCEPT ![i] = "wrote"]
    /\ mheap' = [mheap EXCEPT ![margs[i]] =
                     Insert(@, agents[i].key, Idx(mread[i] + 1))]
    /\ mwrites' = Append(mwrites, i)
    /\ UNCHANGED <<agents, mpc, mstore, margs, mcalls, mret, mread, minput>>
    /\ UNCHANGED notRMW

add_counter_agents == \E k \in CounterKeys : add_counter_agent(k)
CounterRuns == \E m \in CounterMaps : CounterRun(m)
AgentReads  == \E i \in 1..Len(agents) : AgentRead(i)
AgentIncrs  == \E i \in 1..Len(agents) : AgentIncr(i)

CounterAgentsNext ==
    \/ add_counter_agents
    \/ CounterRuns
    \/ MAPoll
    \/ AgentReads
    \/ AgentIncrs
    \/ AgentResolves
    \/ MAJoin

\* ------------------------------------------------------------------- Rag

\* Rag::new: nothing is running.
RagNew ==
    /\ gpc = "idle"
    /\ gheap = <<>>
    /\ gquery = 0
    /\ gmid = 0
    /\ garg = 0
    /\ gout = 0
    /\ gresult = 0
    /\ gcalls = [retriever |-> 0, generator |-> 0]
    /\ gctx = None

\* The stores ask is given: a "query", and "data" or not.
QueryMaps ==
    LET qs == {Insert(EmptyMap, "query", Str(q)) : q \in {"q1", "q2", "q3"}}
    IN  qs \cup {Insert(m, "data", Str("in")) : m \in qs}

\* The contexts the retriever may find.
Contexts == {"c1", "c2", "c3"}

\* The response the generator writes for the store it is given.
Response(m) ==
    Str("re:" \o (IF Has(m, "context") THEN as_str(m["context"]) ELSE ""))

\* ask(query): self.retriever.call(query) is called and awaited.
RagAsk(m) ==
    /\ gpc = "idle"
    /\ gpc' = "retrieving"
    /\ gheap' = <<m>>
    /\ gquery' = 1
    /\ gcalls' = [gcalls EXCEPT !.retriever = @ + 1]
    /\ UNCHANGED <<gmid, garg, gout, gresult, gctx>>
    /\ UNCHANGED notRag

\* The retriever resolves: it wrote "context" into the store it was given or
\* into a new one; the store it returns is store_after_retrieval.
RetrieverResolve(c, fresh) ==
    /\ gpc = "retrieving"
    /\ gpc' = "retrieved"
    /\ gctx' = c
    /\ LET m == Insert(gheap[gquery], "context", Str(c))
       IN  IF fresh
           THEN gheap' = Append(gheap, m) /\ gmid' = Len(gheap) + 1
           ELSE gheap' = [gheap EXCEPT ![gquery] = m] /\ gmid' = gquery
    /\ UNCHANGED <<gquery, garg, gout, gresult, gcalls>>
    /\ UNCHANGED notRag

\* Faulty variant: the generator is called with the query store.
GeneratorCall_Query ==
    /\ gpc = "retrieved"
    /\ gpc' = "generating"
    /\ garg' = gquery
    /\ gcalls' = [gcalls EXCEPT !.generator = @ + 1]
    /\ UNCHANGED <<gheap, gquery, gmid, gout, gresult, gctx>>
    /\ UNCHANGED notRag

\* self.generator.call(store_after_retrieval) is called and awaited.
GeneratorCall ==
    /\ gpc = "retrieved"
    /\ gpc' = "generating"
    /\ garg' = gmid
    /\ gcalls' = [gcalls EXCEPT !.generator = @ + 1]
    /\ UNCHANGED <<gheap, gquery, gmid, gout, gresult, gctx>>
    /\ UNCHANGED notRag

\* The generator resolves: it wrote "response" into the store it was given
\* or into a new one; ask returns the store it returns.
GeneratorResolve(fresh) ==
    /\ gpc = "generating"
    /\ gpc' = "done"
    /\ LET m == Insert(gheap[garg], "response", Response(gheap[garg]))
       IN  IF fresh
           THEN gheap' = Append(gheap, m) /\ gout' = Len(gheap) + 1
           ELSE gheap' = [gheap EXCEPT ![garg] = m] /\ gout' = garg
    /\ gresult' = gout'
    /\ UNCHANGED <<gquery, gmid, garg, gcalls, gctx>>
    /\ UNCHANGED notRag

RagNext ==
    \/ \E m \in QueryMaps : RagAsk(m)
    \/ \E c \in Contexts, fresh \in BOOLEAN : RetrieverResolve(c, fresh)
    \/ GeneratorCall
    \/ \E fresh \in BOOLEAN : GeneratorResolve(fresh)

\* -------------------------------------------------------------- Workflow

\* Workflow::new: an empty flow, no params.
WorkflowNew ==
    /\ wparams = EmptyMap
    /\ wpc = "idle"
    /\ winput = EmptyMap
    /\ wresult = <<>>

\* The params a workflow is given: "data" and "p", each set or not.
ParamMaps ==
    LET withD == {EmptyMap, Insert(EmptyMap, "data", Str("pd"))}
    IN  withD \cup {Insert(m, "p", Str("pp")) : m \in withD}

\* Faulty variant: the params replace what the store holds.
MergeParams_Overwrite(m, ps) ==
    [k \in (DOMAIN m) \cup (DOMAIN ps) |-> IF k \in DOMAIN ps THEN ps[k] ELSE m[k]]

\* for (k, v) in params { store.entry(k).or_insert(v) }
MergeParams(m, ps) ==
    [k \in (DOMAIN m) \cup (DOMAIN ps) |-> IF k \in DOMAIN m THEN m[k] ELSE ps[k]]

\* The workflow with_start("A"), add_step("B"), connect("A", "B").
WFScript ==
    << <<"node", "A", "", "">>, <<"node", "B", "", "">>,
       <<"edge", "A", "default", "B">> >>

\* Workflow::with_start / add_step / connect: the flow's add_node / add_edge.
WFBuild ==
    /\ wpc = "idle"
    /\ buildOps < Len(WFScript)
    /\ LET op == WFScript[buildOps + 1]
       IN  IF op[1] = "node" THEN AddNode(op[2]) ELSE AddEdge(op[2], op[3], op[4])

\* Workflow::set_params
set_params(ps) ==
    /\ wpc = "idle"
    /\ pc = "idle"
    /\ wparams' = ps
    /\ UNCHANGED <<wpc, winput, wresult>>
    /\ UNCHANGED flowVars
    /\ UNCHANGED notWF

\* self.flow.run(shared_store), lines 48-53 of flow.rs, on a new store
\* that holds map m.
WFRunFlow(m) ==
    /\ pc = "idle"
    /\ heap' = <<m>>
    /\ store' = 1
    /\ input0' = m
    /\ IF start_node = None
       THEN /\ pc' = "done"
            /\ halt' = "nostart"
            /\ UNCHANGED current
       ELSE /\ pc' = "loop"
            /\ current' = start_node
            /\ UNCHANGED halt
    /\ UNCHANGED <<buildVars, pending, trace, wrote, lastLabel, labelled>>

\* execute(store): the params are merged into store, store is wrapped in a
\* new Arc<Mutex<..>> and the flow is run on it.
WFExecute(m) ==
    /\ wpc = "idle"
    /\ wpc' = "execute"
    /\ winput' = m
    /\ WFRunFlow(MergeParams(m, wparams))
    /\ UNCHANGED <<wparams, wresult>>
    /\ UNCHANGED notWF

\* Node::call(input): self.flow.run(input)
WFCall(m) ==
    /\ wpc = "idle"
    /\ wpc' = "call"
    /\ winput' = m
    /\ WFRunFlow(m)
    /\ UNCHANGED <<wparams, wresult>>
    /\ UNCHANGED notWF

\* The flow's run has resolved: execute returns the map of the store run
\* returned; call returns that store.
WFReturn ==
    /\ wpc \in {"execute", "call"}
    /\ pc = "done"
    /\ wresult = <<>>
    /\ wresult' = <<heap[store]>>
    /\ UNCHANGED <<wparams, wpc, winput>>
    /\ UNCHANGED flowVars
    /\ UNCHANGED notWF

WorkflowNext ==
    \/ WFBuild
    \/ \E ps \in ParamMaps : set_params(ps)
    \/ \E m \in InputMaps : WFExecute(m)
    \/ \E m \in InputMaps : WFCall(m)
    \/ FlowCallNode
    \/ \E eff \in NodeEffects : NodeResolve(eff)
    \/ FlowRoute
    \/ FlowStrip
    \/ WFReturn

\* ------------------------------------------------------------- BatchFlow

\* BatchFlow::new: nothing is running.
BatchFlowNew ==
    /\ bfpc = "idle"
    /\ bfList = <<>>
    /\ bfIdx = 0
    /\ bfParams = EmptyMap
    /\ bfLock = "free"
    /\ bfShared = 0
    /\ bfBefore = EmptyMap
    /\ bfAtCall = EmptyMap
    /\ bfRuns = <<>>
    /\ bfInput = EmptyMap
    /\ bfRet = 0

\* The parameter sets of a batch, the lists of them, and the maps shared
\* holds when run is called.
BatchParams ==
    {Insert(EmptyMap, "p", Str("p1")), Insert(EmptyMap, "p", Str("p2")),
     Insert(Insert(EmptyMap, "p", Str("p1")), "data", Str("pd")),
     Insert(EmptyMap, "action", Str("retry"))}
ParamLists(n) == UNION {[1..k -> BatchParams] : k \in 0..n}
SharedMaps ==
    {EmptyMap, Insert(EmptyMap, "data", Str("in")), Insert(EmptyMap, "p", Str("in"))}

\* What the nodes of the batch's workflow do: they leave or remove "action"
\* or write "retry", leave or write "data", and return the store or a new
\* one.
BFNodeEffects == {eff \in NodeEffects : eff.act \in {"keep", "remove", "retry"}}

\* run(shared, batch_params)
BFRun(m, ps) ==
    /\ bfpc = "idle"
    /\ pc = "idle"
    /\ bfpc' = "for"
    /\ bfList' = ps
    /\ bfIdx' = 0
    /\ bfShared' = 1
    /\ bfInput' = m
    /\ heap' = <<m>>
    /\ store' = 1
    /\ UNCHANGED <<bfParams, bfLock, bfBefore, bfAtCall, bfRuns, bfRet>>
    /\ UNCHANGED <<buildVars, pc, current, pending, trace, wrote, lastLabel,
                   labelled, halt, input0>>
    /\ UNCHANGED notBF

\* Lines 20-24: the loop takes the next parameter set, clones the workflow,
\* sets the clone's params and locks shared.
BFLock ==
    /\ bfpc = "for"
    /\ bfIdx < Len(bfList)
    /\ bfLock = "free"
    /\ bfpc' = "locked"
    /\ bfParams' = bfList[bfIdx + 1]
    /\ bfLock' = "run"
    /\ bfBefore' = heap[bfShared]
    /\ UNCHANGED <<bfList, bfIdx, bfShared, bfAtCall, bfRuns, bfInput, bfRet>>
    /\ UNCHANGED flowVars
    /\ UNCHANGED notBF

\* Faulty variant: the merge replaces what shared holds.
BFMerge_Overwrite ==
    /\ bfpc = "locked"
    /\ bfpc' = "merged"
    /\ heap' = [heap EXCEPT ![bfShared] = MergeParams_Overwrite(@, bfParams)]
    /\ UNCHANGED <<bfList, bfIdx, bfParams, bfLock, bfShared, bfBefore, bfAtCall,
                   bfRuns, bfInput, bfRet>>
    /\ UNCHANGED <<buildVars, pc, current, store, pending, trace, wrote,
                   lastLabel, labelled, halt, input0>>
    /\ UNCHANGED notBF

\* Lines 25-27: the clone's params are merged into the locked map.
BFMerge ==
    /\ bfpc = "locked"
    /\ bfpc' = "merged"
    /\ heap' = [heap EXCEPT ![bfShared] = MergeParams(@, bfParams)]
    /\ UNCHANGED <<bfList, bfIdx, bfParams, bfLock, bfShared, bfBefore, bfAtCall,
                   bfRuns, bfInput, bfRet>>
    /\ UNCHANGED <<buildVars, pc, current, store, pending, trace, wrote,
                   lastLabel, labelled, halt, input0>>
    /\ UNCHANGED notBF

\* Faulty variant: the guard is not dropped before the workflow is called.
BFUnlock_Keep ==
    /\ bfpc = "merged"
    /\ bfpc' = "unlocked"
    /\ UNCHANGED <<bfList, bfIdx, bfParams, bfLock, bfShared, bfBefore, bfAtCall,
                   bfRuns, bfInput, bfRet>>
    /\ UNCHANGED flowVars
    /\ UNCHANGED notBF

\* Line 28: drop(store)
BFUnlock ==
    /\ bfpc = "merged"
    /\ bfpc' = "unlocked"
    /\ bfLock' = "free"
    /\ UNCHANGED <<bfList, bfIdx, bfParams, bfShared, bfBefore, bfAtCall, bfRuns,
                   bfInput, bfRet>>
    /\ UNCHANGED flowVars
    /\ UNCHANGED notBF

\* Line 30: wf.call(shared.clone()) is called and awaited: the clone's flow
\* runs on shared (lines 48-53 of flow.rs).
BFCallWorkflow ==
    /\ bfpc = "unlocked"
    /\ bfpc' = "running"
    /\ bfAtCall' = heap[bfShared]
    /\ bfRuns' = Append(bfRuns, bfIdx + 1)
    /\ store' = bfShared
    /\ input0' = heap[bfShared]
    /\ IF start_node = None
       THEN /\ pc' = "done"
            /\ halt' = "nostart"
            /\ UNCHANGED current
       ELSE /\ pc' = "loop"
            /\ current' = start_node
            /\ halt' = "none"
    /\ pending' = 0
    /\ trace' = <<>>
    /\ wrote' = FALSE
    /\ lastLabel' = None
    /\ labelled' = FALSE
    /\ UNCHANGED <<buildVars, heap>>
    /\ UNCHANGED <<bfList, bfIdx, bfParams, bfLock, bfShared, bfBefore, bfInput,
                   bfRet>>
    /\ UNCHANGED notBF

\* Faulty variant: the next run starts from the state run was given.
BFAwaited_Reset ==
    /\ bfpc = "running"
    /\ pc = "done"
    /\ bfpc' = "for"
    /\ bfIdx' = bfIdx + 1
    /\ heap' = [heap EXCEPT ![bfShared] = bfInput]
    /\ UNCHANGED <<bfList, bfParams, bfLock, bfShared, bfBefore, bfAtCall, bfRuns,
                   bfInput, bfRet>>
    /\ UNCHANGED <<buildVars, pc, current, store, pending, trace, wrote,
                   lastLabel, labelled, halt, input0>>
    /\ UNCHANGED notBF

\* Line 30: the workflow's call has resolved; what it returned is dropped
\* and the loop goes on.
BFAwaited ==
    /\ bfpc = "running"
    /\ pc = "done"
    /\ bfpc' = "for"
    /\ bfIdx' = bfIdx + 1
    /\ UNCHANGED <<bfList, bfParams, bfLock, bfShared, bfBefore, bfAtCall, bfRuns,
                   bfInput, bfRet>>
    /\ UNCHANGED flowVars
    /\ UNCHANGED notBF

\* Line 32: the list is exhausted: shared is returned.
BFReturn ==
    /\ bfpc = "for"
    /\ bfIdx = Len(bfList)
    /\ bfpc' = "done"
    /\ bfRet' = bfShared
    /\ UNCHANGED <<bfList, bfIdx, bfParams, bfLock, bfShared, bfBefore, bfAtCall,
                   bfRuns, bfInput>>
    /\ UNCHANGED flowVars
    /\ UNCHANGED notBF

\* The workflow is built before run is called.
BFBuild == bfpc = "idle" /\ WFBuild

\* The steps of the flow's run inside wf.call.
BFFlowCallNode == bfpc = "running" /\ FlowCallNode
BFNodeResolves == bfpc = "running" /\ \E eff \in BFNodeEffects : NodeResolve(eff)
BFFlowRoute    == bfpc = "running" /\ FlowRoute
BFFlowStrip    == bfpc = "running" /\ FlowStrip

BatchFlowNext ==
    \/ BFBuild
    \/ \E m \in SharedMaps, ps \in ParamLists(MaxParamSets) : BFRun(m, ps)
    \/ BFLock
    \/ BFMerge
    \/ BFUnlock
    \/ BFCallWorkflow
    \/ BFFlowCallNode
    \/ BFNodeResolves
    \/ BFFlowRoute
    \/ BFFlowStrip
    \/ BFAwaited
    \/ BFReturn

\* ----------------------------------------------------------------- Agent

\* No agent exists yet.
AgentNew ==
    /\ apc = "none"
    /\ a_max_retries = 0
    /\ a_wait_millis = 0
    /\ aheap = <<>>
    /\ ashared = 0
    /\ aiter = 0
    /\ result_store = <<>>
    /\ acalls = 0
    /\ ares = 0
    /\ ainput = EmptyMap
    /\ aout = <<>>

\* Agent::with_retry(node, max_retries, wait_millis); Agent::new(node) is
\* with_retry(node, 1, 0).
with_retry(mr, wm) ==
    /\ apc = "none"
    /\ apc' = "idle"
    /\ a_max_retries' = mr
    /\ a_wait_millis' = wm
    /\ UNCHANGED <<aheap, ashared, aiter, result_store, acalls, ares, ainput, aout>>
    /\ UNCHANGED notAgent

\* decide(input): input is wrapped in a new Arc<Mutex<..>>, result_store is
\* None and the for loop over 0..max_retries begins.
decide(m) ==
    /\ apc = "idle"
    /\ apc' = "for"
    /\ aheap' = <<m>>
    /\ ashared' = 1
    /\ ainput' = m
    /\ result_store' = <<>>
    /\ aiter' = 0
    /\ UNCHANGED <<a_max_retries, a_wait_millis, acalls, ares, aout>>
    /\ UNCHANGED notAgent

\* The loop takes an iteration: self.node.call(shared_store.clone()) is
\* called and awaited.
ADCallNode ==
    /\ apc = "for"
    /\ aiter < a_max_retries
    /\ apc' = "await"
    /\ aiter' = aiter + 1
    /\ acalls' = acalls + 1
    /\ UNCHANGED <<a_max_retries, a_wait_millis, aheap, ashared, result_store,
                   ares, ainput, aout>>
    /\ UNCHANGED notAgent

\* What the node's call does to shared_store, and the handle it returns.
ADNodeEffect(eff) ==
    LET m == ApplyBatchEffect(aheap[ashared], eff)
    IN  IF eff.fresh
        THEN /\ aheap' = Append(aheap, m)
             /\ ares' = Len(aheap) + 1
        ELSE /\ aheap' = [aheap EXCEPT ![ashared] = m]
             /\ ares' = ashared

\* Faulty variant: the loop goes on after an attempt.
ADNodeResolve_NoBreak(eff) ==
    /\ apc = "await"
    /\ ADNodeEffect(eff)
    /\ result_store' = <<ares'>>
    /\ apc' = "for"
    /\ UNCHANGED <<a_max_retries, a_wait_millis, ashared, aiter, acalls, ainput,
                   aout>>
    /\ UNCHANGED notAgent

\* The call resolves with res: result_store = Some(res.clone()); break.
ADNodeResolve(eff) ==
    /\ apc = "await"
    /\ ADNodeEffect(eff)
    /\ result_store' = <<ares'>>
    /\ apc' = "after"
    /\ UNCHANGED <<a_max_retries, a_wait_millis, ashared, aiter, acalls, ainput,
                   aout>>
    /\ UNCHANGED notAgent

\* The range 0..max_retries is used up: the loop ends without a break.
ADLoopEnd ==
    /\ apc = "for"
    /\ aiter >= a_max_retries
    /\ apc' = "after"
    /\ UNCHANGED <<a_max_retries, a_wait_millis, aheap, ashared, aiter,
                   result_store, acalls, ares, ainput, aout>>
    /\ UNCHANGED notAgent

\* result_store.unwrap_or(shared_store); decide returns the map of that
\* store (unwrapped, or cloned under the lock).
ADReturn ==
    /\ apc = "after"
    /\ apc' = "done"
    /\ aout' = <<aheap[IF result_store = <<>> THEN ashared ELSE result_store[1]]>>
    /\ UNCHANGED <<a_max_retries, a_wait_millis, aheap, ashared, aiter,
                   result_store, acalls, ares, ainput>>
    /\ UNCHANGED notAgent

AgentNext ==
    \/ \E mr \in 0..MaxRetries, wm \in Waits : with_retry(mr, wm)
    \/ \E m \in QueryMaps : decide(m)
    \/ ADCallNode
    \/ \E eff \in BatchEffects : ADNodeResolve(eff)
    \/ ADLoopEnd
    \/ ADReturn

\* ------------------------------------------------------ StructuredOutput

\* StructuredOutput::new(node): nothing has been called.
StructuredOutputNew ==
    /\ spc = "idle"
    /\ sheap = <<>>
    /\ sinput = 0
    /\ raw = 0
    /\ sgen = <<>>
    /\ sret = 0
    /\ scalls = 0
    /\ sdirect = <<>>

\* What the wrapped node may do: leave the map, write "out", report an
\* error in the map, or clear the map; in place or in a new store.
SOEffects == [write : {"none", "out", "error", "clear"}, fresh : BOOLEAN]

ApplySOEffect(m, eff) ==
    CASE eff.write = "none"  -> m
      [] eff.write = "out"   -> Insert(m, "out", Str("out"))
      [] eff.write = "error" -> Insert(m, "error", Str("failed"))
      [] OTHER               -> EmptyMap

\* call(input): self.generate(input) is called and awaited.
SOCall(m) ==
    /\ spc = "idle"
    /\ spc' = "generate"
    /\ sheap' = <<m>>
    /\ sinput' = 1
    /\ UNCHANGED <<raw, sgen, sret, scalls, sdirect>>
    /\ UNCHANGED notSO

\* generate(prompt): self.node.call(prompt) is called and awaited.
SOCallNode ==
    /\ spc = "generate"
    /\ spc' = "await"
    /\ scalls' = scalls + 1
    /\ UNCHANGED <<sheap, sinput, raw, sgen, sret, sdirect>>
    /\ UNCHANGED notSO

\* The node's call resolves: raw is the store it returned.
SONodeResolve(eff) ==
    LET m == ApplySOEffect(sheap[sinput], eff)
    IN  /\ spc = "await"
        /\ spc' = "raw"
        /\ IF eff.fresh
           THEN /\ sheap' = Append(sheap, m)
                /\ raw' = Len(sheap) + 1
           ELSE /\ sheap' = [sheap EXCEPT ![sinput] = m]
                /\ raw' = sinput
        /\ sdirect' = [ret |-> raw', heap |-> sheap']
        /\ UNCHANGED <<sinput, sgen, sret, scalls>>
        /\ UNCHANGED notSO

\* Faulty variant: generate reports a failure.
SOGenerate_Err ==
    /\ spc = "raw"
    /\ spc' = "result"
    /\ sgen' = <<"Err">>
    /\ UNCHANGED <<sheap, sinput, raw, sret, scalls, sdirect>>
    /\ UNCHANGED notSO

\* generate returns Ok(raw).
SOGenerate ==
    /\ spc = "raw"
    /\ spc' = "result"
    /\ sgen' = <<"Ok", raw>>
    /\ UNCHANGED <<sheap, sinput, raw, sret, scalls, sdirect>>
    /\ UNCHANGED notSO

\* .unwrap_or_else(|_| Arc::new(Mutex::new(HashMap::new()))): the Ok value,
\* or a new empty store on Err.
SOUnwrap ==
    /\ spc = "result"
    /\ spc' = "done"
    /\ IF sgen[1] = "Ok"
       THEN /\ sret' = sgen[2]
            /\ UNCHANGED sheap
       ELSE /\ sheap' = Append(sheap, EmptyMap)
            /\ sret' = Len(sheap) + 1
    /\ UNCHANGED <<sinput, raw, sgen, scalls, sdirect>>
    /\ UNCHANGED notSO

StructuredOutputNext ==
    \/ \E m \in QueryMaps : SOCall(m)
    \/ SOCallNode
    \/ \E eff \in SOEffects : SONodeResolve(eff)
    \/ SOGenerate
    \/ SOUnwrap

\* ------------------------------------------------- Flow builder, logged

\* add_node(name, _) on a flow that is not running, with the call logged.
BuildAddNode(name) ==
    /\ pc = "idle"
    /\ buildOps < MaxBuildOps
    /\ add_node(name)
    /\ buildOps' = buildOps + 1
    /\ buildLog' = Append(buildLog, <<"node", name, "", "">>)
    /\ UNCHANGED runVars
    /\ UNCHANGED notBuild

\* add_edge(from, action, to) on a flow that is not running, with the call
\* logged.
BuildAddEdge(from, action, to) ==
    /\ pc = "idle"
    /\ buildOps < MaxBuildOps
    /\ add_edge(from, action, to)
    /\ buildOps' = buildOps + 1
    /\ buildLog' = Append(buildLog, <<"edge", from, action, to>>)
    /\ UNCHANGED runVars
    /\ UNCHANGED notBuild

BuildAddNodes == \E name \in GenNames : BuildAddNode(name)

BuildAddEdges ==
    \E from \in GenNames, action \in Labels, to \in GenNames :
        BuildAddEdge(from, action, to)

BuildNext ==
    \/ BuildAddNodes
    \/ BuildAddEdges

\* ----------------------------------------------- a Flow inside a Flow

\* The outer flow: vertex "I" is the inner Flow (impl Node for Flow, and
\* impl Node for Workflow, are self.run(input) / self.flow.run(input)),
\* vertex "P" is a plain node.  "I" is the start.
OuterStart == "I"
OuterEdges ==
    {<<"I", "default", "P">>, <<"I", "retry", "I">>, <<"P", "retry", "I">>}

\* The outer flow's get_next_step
OuterNextStep(from, action) ==
    IF \E e \in OuterEdges : e[1] = from /\ e[2] = action
    THEN (CHOOSE e \in OuterEdges : e[1] = from /\ e[2] = action)[3]
    ELSE None

\* What the plain node "P" does: it leaves, removes or writes "action".
OuterEffects == {eff \in NodeEffects : eff.data = "keep" /\ ~eff.fresh}

\* The outer flow is built; nothing runs.
OuterNew ==
    /\ opc = "idle"
    /\ ocurrent = None
    /\ ostore = 0
    /\ otrace = <<>>
    /\ olabels = <<>>

\* The inner flow is built before the outer run.
OuterBuildInner == opc = "idle" /\ WFBuild

\* The outer run(shared_store) begins at its start.
OuterRun(m) ==
    /\ opc = "idle"
    /\ pc = "idle"
    /\ opc' = "loop"
    /\ ocurrent' = OuterStart
    /\ heap' = <<m>>
    /\ ostore' = 1
    /\ UNCHANGED <<otrace, olabels>>
    /\ UNCHANGED <<buildVars, pc, current, store, pending, trace, wrote,
                   lastLabel, labelled, halt, input0>>
    /\ UNCHANGED notOuter

\* The outer run calls the node of "I": the inner Flow's call, which is the
\* inner run on the outer run's store.
OuterCallInner ==
    /\ opc = "loop"
    /\ ocurrent = "I"
    /\ Len(otrace) < MaxSteps
    /\ opc' = "inner"
    /\ otrace' = Append(otrace, ocurrent)
    /\ store' = ostore
    /\ input0' = heap[ostore]
    /\ IF start_node = None
       THEN /\ pc' = "done"
            /\ halt' = "nostart"
            /\ UNCHANGED current
       ELSE /\ pc' = "loop"
            /\ current' = start_node
            /\ halt' = "none"
    /\ pending' = 0
    /\ trace' = <<>>
    /\ wrote' = FALSE
    /\ lastLabel' = None
    /\ labelled' = FALSE
    /\ UNCHANGED <<buildVars, heap>>
    /\ UNCHANGED <<ocurrent, ostore, olabels>>
    /\ UNCHANGED notOuter

\* The steps of the inner run.
InnerCallNode    == opc = "inner" /\ FlowCallNode
InnerNodeResolve == opc = "inner" /\ \E eff \in BFNodeEffects : NodeResolve(eff)
InnerRoute       == opc = "inner" /\ FlowRoute
InnerStrip       == opc = "inner" /\ FlowStrip

\* The inner run has returned: shared_store = node.call(shared_store).await
OuterInnerResolve ==
    /\ opc = "inner"
    /\ pc = "done"
    /\ opc' = "route"
    /\ ostore' = store
    /\ UNCHANGED <<ocurrent, otrace, olabels>>
    /\ UNCHANGED flowVars
    /\ UNCHANGED notOuter

\* The outer run calls the node of "P".
OuterCallPlain ==
    /\ opc = "loop"
    /\ ocurrent = "P"
    /\ Len(otrace) < MaxSteps
    /\ opc' = "plain"
    /\ otrace' = Append(otrace, ocurrent)
    /\ UNCHANGED <<ocurrent, ostore, olabels>>
    /\ UNCHANGED flowVars
    /\ UNCHANGED notOuter

\* The call of "P" resolves.
OuterPlainResolve(eff) ==
    /\ opc = "plain"
    /\ opc' = "route"
    /\ heap' = [heap EXCEPT ![ostore] = ApplyEffect(@, eff)]
    /\ UNCHANGED <<ocurrent, ostore, otrace, olabels>>
    /\ UNCHANGED <<buildVars, pc, current, store, pending, trace, wrote,
                   lastLabel, labelled, halt, input0>>
    /\ UNCHANGED notOuter

OuterPlainResolves == \E eff \in OuterEffects : OuterPlainResolve(eff)

\* The outer run reads the label and follows the edge or leaves the loop.
OuterRoute ==
    /\ opc = "route"
    /\ LET action == ActionLabel(heap[ostore])
           next_node == OuterNextStep(ocurrent, action)
       IN  /\ olabels' = Append(olabels, <<ocurrent, action>>)
           /\ IF next_node # None
              THEN /\ ocurrent' = next_node
                   /\ opc' = "loop"
              ELSE /\ opc' = "strip"
                   /\ UNCHANGED ocurrent
    /\ UNCHANGED <<ostore, otrace>>
    /\ UNCHANGED flowVars
    /\ UNCHANGED notOuter

\* The outer run removes "action" and returns.
OuterStrip ==
    /\ opc = "strip"
    /\ opc' = "done"
    /\ heap' = [heap EXCEPT ![ostore] = Remove(@, "action")]
    /\ UNCHANGED <<ocurrent, ostore, otrace, olabels>>
    /\ UNCHANGED <<buildVars, pc, current, store, pending, trace, wrote,
                   lastLabel, labelled, halt, input0>>
    /\ UNCHANGED notOuter

OuterRuns == \E m \in FairInputs : OuterRun(m)

NestedNext ==
    \/ OuterBuildInner
    \/ OuterRuns
    \/ OuterCallInner
    \/ InnerCallNode
    \/ InnerNodeResolve
    \/ InnerRoute
    \/ InnerStrip
    \/ OuterInnerResolve
    \/ OuterCallPlain
    \/ OuterPlainResolves
    \/ OuterRoute
    \/ OuterStrip

\* -------------------------------------------------------- specifications

\* Every component as constructed, none running.
Init ==
    /\ FlowNew
    /\ BatchNew
    /\ RetryNew
    /\ MultiAgentNew
    /\ MapReduceNew
    /\ RagNew
    /\ WorkflowNew
    /\ BatchFlowNew
    /\ AgentNew
    /\ StructuredOutputNew
    /\ buildLog = <<>>
    /\ mread = <<>>
    /\ minput = EmptyMap
    /\ OuterNew

Spec == Init /\ [][FlowNext]_vars

SpecABC == Init /\ [][ABCNext]_vars

SpecBatch == Init /\ [][BatchNext]_vars

SpecParallelBatch == Init /\ [][ParallelBatchNext]_vars

SpecRetry == Init /\ [][RetryNext]_vars

SpecMultiAgent == Init /\ [][MultiAgentNext]_vars

SpecMapReduce == Init /\ [][MapReduceNext]_vars

SpecRag == Init /\ [][RagNext]_vars

SpecWorkflow == Init /\ [][WorkflowNext]_vars

SpecBatchFlow == Init /\ [][BatchFlowNext]_vars

SpecAgent == Init /\ [][AgentNext]_vars

SpecStructuredOutput == Init /\ [][StructuredOutputNext]_vars

SpecBuild == Init /\ [][BuildNext]_vars

SpecCounterAgents == Init /\ [][CounterAgentsNext]_vars

SpecNested == Init /\ [][NestedNext]_vars

SpecLabels == Init /\ [][LabelsNext]_vars

SpecFlowFair == Init /\ [][FlowFairNext]_vars /\ FlowFairness

\* ------------------------------------------------------- claims: Flow.run

\* The label the transition rule names: the string under "action", or
\* "default" when the key is unset.
RuleLabel(m) == IF Has(m, "action") THEN as_str(m["action"]) ELSE "default"

HasEdge(from, label) == \E e \in edges : e[1] = from /\ e[2] = label
Targets(from, label) == {e[3] : e \in {x \in edges : x[1] = from /\ x[2] = label}}

\* C1: in a flow with a start node, when the node just executed leaves a
\* label for which the current vertex has no outgoing edge, run leaves its
\* loop, calls no further node, and the store it returns has no "action".
Thm_C1_NoEdgeHalts ==
    /\ [][(pc = "route" /\ ~HasEdge(current, ActionLabel(heap[store])))
            => (pc' = "strip" /\ halt' = "noedge" /\ trace' = trace)]_vars
    /\ [][(pc \in {"strip", "done"}) => (trace' = trace /\ pending' = 0)]_vars
    /\ [][(pc = "strip") => (pc' = "done" /\ ~Has(heap'[store'], "action"))]_vars
    /\ [](pc = "done" /\ halt = "noedge" => ~Has(heap[store], "action"))

\* C1 witness: a run halted because the label "retry", present in the
\* store after the last node call, has no edge at the current vertex.
Wit_C1 ==
    /\ pc = "done" /\ halt = "noedge" /\ lastLabel = "retry"
    /\ HasEdge(current, "default") /\ ~HasEdge(current, "retry")
    /\ ~Has(heap[store], "action")

\* C2: after each node call the label is the string under "action" (or
\* "default" when unset); with an edge (current, label) the run moves to
\* exactly that edge's target, without one it halts; a node is only ever
\* called at the vertex the run moved to.
Thm_C2_TransitionRule ==
    /\ [][(pc = "route" /\ RuleLabel(heap[store]) # None)
            => LET label == RuleLabel(heap[store])
               IN  IF HasEdge(current, label)
                   THEN pc' = "loop" /\ Targets(current, label) = {current'}
                   ELSE pc' = "strip" /\ current' = current]_vars
    /\ [][trace' # trace => (pc = "loop" /\ trace' = Append(trace, current))]_vars
    /\ [][current' # current => pc \in {"idle", "route"}]_vars

\* C2 witness: the run moved along a "retry" edge to another vertex and
\* called its node.
Wit_C2 ==
    /\ Len(trace) >= 2 /\ trace[1] # trace[2]
    /\ lastLabel = "retry" /\ pc = "await"

\* C3 as stated: whenever the node that just executed did not write
\* "action", the run routes as the label "default" routes.
Cex_C3_DefaultWhenNotWritten ==
    (pc = "route" /\ ~wrote)
        => get_next_step(current, ActionLabel(heap[store]))
               = get_next_step(current, "default")

\* C4 as stated: the store run returns never contains "action", for every
\* flow (also one with no nodes) and every input store.
Cex_C4_NeverAction == (pc = "done") => ~Has(heap[store], "action")

\* C4 amended: for a flow with a start node the returned store never
\* contains "action"; a flow with no start node returns its input as it
\* is, so "action" is in the result exactly when it was in the input.
Thm_C4_StrippedWithStart ==
    /\ (pc = "done" /\ start_node # None) => ~Has(heap[store], "action")
    /\ (pc = "done" /\ start_node = None)
           => (Has(heap[store], "action") <=> Has(input0, "action"))

\* C4 witness: a run of a flow with a start node, given a store that
\* contained "action", has returned after at least one node call.
Wit_C4 ==
    /\ pc = "done" /\ start_node # None
    /\ Has(input0, "action") /\ Len(trace) >= 1

\* add_node A, B, C and add_edge (A, default, B), (B, default, C) are done.
ABCBuilt == buildOps = Len(ABCScript)

\* The store holds no non-default label: "action" is unset, "default", or
\* not a string.
NoLabelIn(m) == ~Has(m, "action") \/ as_str(m["action"]) \in {None, "default"}

IsPrefix(p, q) == Len(p) <= Len(q) /\ \A i \in 1..Len(p) : p[i] = q[i]

Thm_C6_NoStart ==
    (start_node = None /\ pc # "idle")
        => /\ pc = "done" /\ nodes = {}
           /\ trace = <<>> /\ pending = 0
           /\ store = 1 /\ heap = <<input0>>

\* C6 witness: the run of an empty flow returned a store with both keys.
Wit_C6 ==
    /\ start_node = None /\ pc = "done"
    /\ Has(heap[store], "action") /\ Has(heap[store], "data")

\* C7: node calls of one run never overlap: at most one is pending, and
\* the loop is at its head (where the next call starts), routing,
\* stripping or done only when none is.
Thm_C7_Sequential ==
    /\ pending <= 1
    /\ (pc # "await") => pending = 0
    /\ (pc = "await") => pending = 1

\* C7 witness: the second node call of a run is pending.
Wit_C7 == pc = "await" /\ pending = 1 /\ Len(trace) >= 2

\* ---------------------------------------- claims: Batch / ParallelBatch

Running == {i \in 1..Len(binput) : belems[i] = "running"}

\* The output list is the input list, item by item: entry i is the store
\* the call on input i returned, it carries input i's tag and the node's
\* output.
Aligned ==
    /\ Len(bresults) = Len(binput)
    /\ \A i \in 1..Len(binput) :
           /\ bresults[i] = bret[i]
           /\ bresults[i] \in 1..Len(bheap)
           /\ Has(bheap[bresults[i]], "idx")
           /\ bheap[bresults[i]]["idx"] = Idx(i)
           /\ Has(bheap[bresults[i]], "out")

\* C8: for every ParallelBatch call with N inputs and every completion
\* order of the N node calls, the output has length N and output[i] is
\* the result of the node call on input[i].
Thm_C8_OrderPreserved == (bpc = "done") => Aligned

\* C8 witness: three calls resolved last item first, and the call returned.
Wit_C8 == bpc = "done" /\ border = <<3, 2, 1>>

\* C9: ParallelBatch.call resolves only after every one of its N node
\* calls has resolved: every call was started once and ran to its end,
\* whatever order they finished in and whether or not one produced an
\* error result, and the list returned is complete.
Thm_C9_JoinAll ==
    (bpc = "done")
        => /\ AllDone
           /\ Len(observed) = Len(binput)
           /\ Len(border) = Len(binput)
           /\ {border[k] : k \in 1..Len(border)} = 1..Len(binput)
           /\ Len(bresults) = Len(binput)

\* C9 witness: the call on item 2 resolved first, with an error result,
\* while the others were still running; the call returned three results.
Wit_C9 ==
    /\ bpc = "done" /\ Len(bresults) = 3
    /\ border[1] = 2 /\ Has(bheap[bret[2]], "error")
    /\ observed = <<0, 0, 0>>

StrictlyIncreasing(q) == \A i, j \in 1..Len(q) : i < j => q[i] < q[j]

\* C10: Batch applies the node to the inputs one at a time in list order:
\* the call on item i+1 starts only after the call on item i resolved,
\* the counter values the calls see are strictly increasing, and
\* result[i] is the result for input[i].
Thm_C10_BatchSequential ==
    /\ Cardinality(Running) <= 1
    /\ \A i \in 1..Len(binput) :
           (i > 1 /\ belems[i] # "new") => belems[i - 1] = "done"
    /\ StrictlyIncreasing(observed)
    /\ \A k \in 1..Len(border) : border[k] = k
    /\ (bpc = "done") => (Aligned /\ AllDone)

\* C10 witness: a Batch call on three items returned.
Wit_C10 == bpc = "done" /\ Len(bresults) = 3 /\ observed = <<0, 1, 2>>

\* ------------------------------------------------------ claims: RetryNode

\* The execute calls of a node call so far failed k times and then succeeded.
FailedThenOk(k) ==
    /\ Len(outcomes) = k + 1
    /\ \A i \in 1..k : outcomes[i] = "err"
    /\ outcomes[k + 1] = "ok"

\* C11: when execute fails on its first K calls and then succeeds, with
\* max_retries > K, the node call returns what post made of the successful
\* execute value, execute was called exactly K+1 times, and exactly K delays
\* of wait_millis occurred: K sleeps when wait_millis is positive, and
\* K * wait_millis milliseconds slept in all.
Thm_C11_FailKThenSucceed ==
    \A k \in 0..MaxRetries :
        (rpc = "done" /\ FailedThenOk(k) /\ max_retries > k) =>
            /\ rcalls.exec = k + 1
            /\ slept = k * wait_millis
            /\ (wait_millis > 0 => rcalls.sleep = k)
            /\ rcalls.post = 1
            /\ exec_res # <<>>
            /\ postArgs[1].val = exec_res[1]
            /\ routput[1]["result"] = exec_res[1]

Wit_C11 ==
    /\ rpc = "done"
    /\ FailedThenOk(2)
    /\ wait_millis > 0
    /\ rcalls.sleep = 2
    /\ routput[1]["result"] = Str("v2")

\* Every execute call of the node call failed and the execute phase is over.
AllFailed ==
    /\ rpc \in {"post", "done"}
    /\ exec_res = <<>>

\* C12: when execute always fails and max_retries = n >= 1, execute is
\* attempted exactly n times, exactly n-1 delays occur between the attempts
\* (n-1 sleeps when wait_millis is positive, (n-1) * wait_millis milliseconds
\* in all) and none after the last attempt, and the value post is given
\* encodes the failure.
Thm_C12_AlwaysFails ==
    /\ (rpc = "sleep" => attempt + 1 < max_retries)
    /\ (AllFailed /\ max_retries >= 1) =>
           /\ Len(outcomes) = max_retries
           /\ rcalls.exec = max_retries
           /\ slept = (max_retries - 1) * wait_millis
           /\ (wait_millis > 0 => rcalls.sleep = max_retries - 1)
           /\ postArgs[1].val \in
                  {fallback_val, ErrorMarker(max_retries, ErrOf(max_retries - 1))}
           /\ postArgs[1].val[1] = "error"
           /\ (rpc = "done" => routput[1]["result"] = postArgs[1].val)

Wit_C12 ==
    /\ AllFailed
    /\ rpc = "done"
    /\ max_retries = 3
    /\ wait_millis > 0
    /\ rcalls.exec = 3
    /\ rcalls.sleep = 2
    /\ routput[1]["result"] = ErrorMarker(3, "e3")

\* The values post may be given: the value of a successful execute, the
\* fallback value, or the error marker.
PostValueOk ==
    \/ exec_res # <<>> /\ postArgs[1].val = exec_res[1]
    \/ exec_res = <<>> /\ fallback # <<>> /\ postArgs[1].val = fallback_val
    \/ exec_res = <<>> /\ fallback = <<>>
           /\ postArgs[1].val = ErrorMarker(max_retries, last_err)

\* C13: for every max_retries (0 included), every sequence of execute
\* outcomes, with or without a fallback, post runs exactly once per node
\* call, after the execute phase, and is given the success value, the
\* fallback value or the error marker.  (Violated: with max_retries = 0 and a
\* fallback the call panics before post is called.)
Cex_C13_PostExactlyOnce ==
    /\ rcalls.post <= 1
    /\ (rcalls.post = 1 => rpc \in {"post", "done"} /\ PostValueOk)
    /\ (rpc \in {"done", "panic"} => rcalls.post = 1)

\* C14: a failing execute phase never aborts the node call: for every
\* max_retries and with or without a fallback the call completes and returns
\* a state that holds the fallback value or the error marker.  (Violated by
\* the panic of C13.)
Cex_C14_NoAbort ==
    /\ rpc # "panic"
    /\ (rpc = "done" /\ exec_res = <<>>) =>
           /\ routput[1]["result"][1] = "error"
           /\ routput[1]["result"] \in
                  {fallback_val, ErrorMarker(max_retries, last_err)}

MADone == mpc = "done"

\* The map of the store run returned.
MAResult == mheap[mret]

\* C16: three agents that each write one distinct key "x", "y", "z" to a
\* shared store that starts empty: in every interleaving all three keys are
\* present, with the agents' values, once run has returned.
Thm_C16_AllKeysPresent ==
    (/\ MADone
     /\ Len(agents) = 3
     /\ {agents[i].key : i \in 1..3} = {"x", "y", "z"}) =>
        /\ DOMAIN MAResult = {"x", "y", "z"}
        /\ \A i \in 1..3 : MAResult[agents[i].key] = agents[i].val

Wit_C16 ==
    /\ MADone
    /\ Len(agents) = 3
    /\ {agents[i].key : i \in 1..3} = {"x", "y", "z"}
    /\ mwrites = <<3, 1, 2>>
    /\ DOMAIN MAResult = {"x", "y", "z"}

\* C17: run gives every agent the handle it was given itself (not a copy),
\* calls each agent exactly once, resolves only after every agent's call has
\* resolved, and returns the handle it was given.
Thm_C17_RunContract ==
    /\ mpc # "build" =>
           \A i \in 1..Len(agents) : margs[i] = mstore /\ mcalls[i] = 1
    /\ MADone =>
           /\ \A i \in 1..Len(agents) : mphase[i] = "done"
           /\ \A i \in 1..Len(agents) :
                  Cardinality({j \in 1..Len(mwrites) : mwrites[j] = i}) = 1
           /\ mret = mstore

Wit_C17 ==
    /\ MADone
    /\ Len(agents) = 3
    /\ \A i \in 1..3 : mphase[i] = "done" /\ margs[i] = mret
    /\ mwrites = <<2, 3, 1>>

\* The writes of key k so far, as positions in mwrites.
WritesOf(k) == {j \in 1..Len(mwrites) : agents[mwrites[j]].key = k}

\* The agent whose write of key k was performed last.
LastWriter(k) ==
    mwrites[CHOOSE j \in WritesOf(k) : \A j2 \in WritesOf(k) : j2 <= j]

\* C18: when agents write the same key (one locked write each), the key
\* holds the value of the write that was performed last: always one of the
\* values written, during the run and after it.
Thm_C18_LastWriteWins ==
    \A k \in AgentKeys :
        WritesOf(k) # {} =>
            /\ mheap[mstore][k] = agents[LastWriter(k)].val
            /\ mheap[mstore][k] \in
                   {agents[i].val : i \in {a \in 1..Len(agents) : agents[a].key = k}}

\* Three agents write key "x" and run returns with the value of agent i.
SameKeyWinner(i) ==
    /\ MADone
    /\ Len(agents) = 3
    /\ \A a \in 1..3 : agents[a].key = "x"
    /\ MAResult["x"] = AgentValue(i)

\* Every agent's value is a possible outcome: SameKeyWinner(i) is reachable
\* for i = 1, 2 and 3; the first agent, polled first, is the witness.
Wit_C18 == SameKeyWinner(1)

\* ------------------------------------------------------ claims: MapReduce

RECURSIVE SumOfLengths(_)
\* The arithmetic sum of the lengths of the texts ts.
SumOfLengths(ts) ==
    IF ts = <<>> THEN 0 ELSE StrLen(Head(ts)) + SumOfLengths(Tail(ts))

RECURSIVE Concat(_)
\* The texts ts joined in their order.
Concat(ts) == IF ts = <<>> THEN "" ELSE Head(ts) \o Concat(Tail(ts))

\* C19: MapReduce.run(inputs) is reducer.call(mapper.call(inputs)): every
\* mapper call has completed before the reducer starts, the reducer is
\* called exactly once, with the mapped states in input order, and run
\* returns the reducer's result unchanged: with a mapper that writes a length
\* and a reducer that sums them, the arithmetic sum of the lengths.
Thm_C19_MapThenReduce ==
    /\ mrCalls <= 1
    /\ mrpc \in {"reducing", "done"} =>
           /\ AllDone
           /\ bpc = "done"
           /\ mrCalls = 1
           /\ mrArg[1] = [i \in 1..Len(mrTexts) |-> bret[i]]
           /\ \A i \in 1..Len(mrTexts) :
                  /\ bheap[mrArg[1][i]]["text"] = Str(mrTexts[i])
                  /\ bheap[mrArg[1][i]]["len"] = Idx(StrLen(mrTexts[i]))
    /\ mrpc = "done" =>
           /\ mrResult = mrRet
           /\ bheap[mrResult]["total"] = Idx(SumOfLengths(mrTexts))
           /\ bheap[mrResult]["joined"] = Str(Concat(mrTexts))

Wit_C19 ==
    /\ mrpc = "done"
    /\ mrTexts = <<"bb", "a", "bb">>
    /\ bheap[mrResult]["total"] = Idx(5)
    /\ bheap[mrResult]["joined"] = Str("bbabb")
    /\ mrArg[1] # binput

\* ------------------------------------------------------------ claims: Rag

\* C20: Rag.ask is a strict two-stage pipeline: the generator's call starts
\* only after the retriever's call has resolved, the generator is given
\* exactly the state the retriever returned, and ask returns the state the
\* generator returned.
Thm_C20_TwoStage ==
    /\ gcalls.retriever <= 1
    /\ gcalls.generator <= 1
    /\ gpc = "retrieving" => gcalls.generator = 0
    /\ gcalls.generator = 1 =>
           /\ gcalls.retriever = 1
           /\ gmid # 0
           /\ garg = gmid
           /\ gheap[garg]["context"] = Str(gctx)
    /\ gpc = "done" =>
           /\ gresult = gout
           /\ gheap[gresult]["response"] = Str("re:" \o gctx)

Wit_C20 ==
    /\ gpc = "done"
    /\ gquery = 1
    /\ gmid = 2
    /\ garg = 2
    /\ gresult = 3
    /\ gheap[3]["response"] = Str("re:c2")
    /\ ~Has(gheap[1], "context")

\* ------------------------------------------------------- claims: Workflow

\* The first node of the flow has been called and has not resolved yet.
AtFirstNodeCall == Len(trace) = 1 /\ pc = "await"

\* Map m holds every key of map before with its value there, and every key
\* of ps that before lacks with its value in ps.
MergedInto(m, before, ps) ==
    /\ DOMAIN m = (DOMAIN before) \cup (DOMAIN ps)
    /\ \A k \in DOMAIN before : m[k] = before[k]
    /\ \A k \in (DOMAIN ps) \ (DOMAIN before) : m[k] = ps[k]

\* C21: Workflow.execute merges the params into the input map before the
\* first step runs and never overwrites: when the first node is called every
\* key of the input has its input value and every params key the input lacks
\* is present with the params value.
Thm_C21_ExecuteMerges ==
    (wpc = "execute" /\ AtFirstNodeCall) =>
        MergedInto(heap[store], winput, wparams)

Wit_C21 ==
    /\ wpc = "execute"
    /\ AtFirstNodeCall
    /\ DOMAIN wparams = {"data", "p"}
    /\ Has(winput, "data")
    /\ heap[store]["data"] = Str("in")
    /\ heap[store]["p"] = Str("pp")

\* C22: Workflow.call merges the params into the shared state before the
\* first step runs, as execute does.  (Violated: call runs the flow on the
\* store as it is given.)
Cex_C22_CallMerges ==
    (wpc = "call" /\ AtFirstNodeCall) =>
        MergedInto(heap[store], winput, wparams)

\* ------------------------------------------------------ claims: BatchFlow

\* C23: BatchFlow.run runs the workflow exactly once per parameter set, in
\* list order and one run at a time, all on the single shared state; before
\* each run it merges that parameter set into the state without overwriting
\* a key that is present.  With an empty list no run happens and the state
\* is returned unchanged.
Thm_C23_OncePerParamSet ==
    /\ Len(bfRuns) <= Len(bfList)
    /\ bfRuns = [i \in 1..Len(bfRuns) |-> i]
    /\ bfpc \in {"for", "locked", "merged", "unlocked", "done"} =>
           /\ pending = 0
           /\ pc \in {"idle", "done"}
           /\ Len(bfRuns) = bfIdx
    /\ bfpc = "running" =>
           /\ Len(bfRuns) = bfIdx + 1
           /\ MergedInto(bfAtCall, bfBefore, bfList[bfIdx + 1])
           /\ (trace = <<>> => store = bfShared)
    /\ bfpc = "done" =>
           /\ Len(bfRuns) = Len(bfList)
           /\ bfRet = bfShared
           /\ (bfList = <<>> => heap[bfRet] = bfInput /\ trace = <<>>)

Wit_C23 ==
    /\ bfpc = "done"
    /\ bfRuns = <<1, 2>>
    /\ bfInput = EmptyMap
    /\ bfList[1] = Insert(EmptyMap, "p", Str("p1"))
    /\ bfList[2] = Insert(EmptyMap, "p", Str("p2"))
    /\ heap[bfRet] = Insert(EmptyMap, "p", Str("p1"))
    /\ Len(trace) = 2

Cex_C29_ReturnedStateAuthoritative ==
    /\ (bfpc = "for" /\ bfIdx > 0) => bfShared = store
    /\ (bfpc = "done" /\ bfIdx > 0) => bfRet = store

\* ---------------------------------------------------------- claims: Agent

Thm_C25_SameAsNode ==
    /\ scalls <= 1
    /\ sgen # <<>> => sgen = <<"Ok", raw>>
    /\ spc = "done" =>
           /\ scalls = 1
           /\ sret = sdirect.ret
           /\ sheap = sdirect.heap

\* The node cleared a new store it returned: call returns that empty store,
\* not a replacement.
Wit_C25 ==
    /\ spc = "done"
    /\ sret = 2
    /\ sheap[sret] = EmptyMap
    /\ Len(sheap) = 2
    /\ Has(sheap[sinput], "query")

\* --------------------------------------------------- claims: Flow builder

\* The positions of the logged add_edge(from, action, _) calls after
\* position lo.
EdgeCalls(from, action, lo) ==
    {i \in (lo + 1)..Len(buildLog) :
        /\ buildLog[i][1] = "edge"
        /\ buildLog[i][2] = from
        /\ buildLog[i][3] = action}

\* The position of the last logged add_node(name, _), 0 if there is none.
LastAddNode(name) ==
    LET ps == {i \in 1..Len(buildLog) :
                  buildLog[i][1] = "node" /\ buildLog[i][2] = name}
    IN  IF ps = {} THEN 0 ELSE CHOOSE i \in ps : \A j \in ps : j <= i

\* The target of the last add_edge(from, action, _) after position lo.
LastTarget(from, action, lo) ==
    LET ps == EdgeCalls(from, action, lo)
    IN  IF ps = {} THEN None
        ELSE buildLog[CHOOSE i \in ps : \A j \in ps : j <= i][4]

OneEdgePerPair ==
    \A e1, e2 \in edges : (e1[1] = e2[1] /\ e1[2] = e2[2]) => e1 = e2

\* C26 as stated: after any sequence of add_node and add_edge calls there
\* is at most one edge per (from, action), and get_next_step(from, action)
\* is the target of the most recent add_edge(from, action, _).  (Violated:
\* add_node(from) after the add_edge removes the edge.)
Cex_C26_MostRecentEdge ==
    /\ OneEdgePerPair
    /\ \A from \in GenNames, action \in Labels :
           EdgeCalls(from, action, 0) # {} =>
               get_next_step(from, action) = LastTarget(from, action, 0)

\* C26, amended: at most one edge per (from, action); get_next_step(from,
\* action) is the target of the most recent add_edge(from, action, _) made
\* after the last add_node(from, _), and none if there is no such call.
Thm_C26_MostRecentEdgeSinceAddNode ==
    /\ OneEdgePerPair
    /\ \A from \in GenNames, action \in Labels :
           get_next_step(from, action) =
               LastTarget(from, action, LastAddNode(from))

\* add_edge on an existing pair has replaced the target.
Wit_C26 ==
    /\ Len(buildLog) = 3
    /\ buildLog[1] = <<"node", "A", "", "">>
    /\ buildLog[2] = <<"edge", "A", "default", "A">>
    /\ buildLog[3] = <<"edge", "A", "default", "B">>
    /\ get_next_step("A", "default") = "B"
    /\ edges = {<<"A", "default", "B">>}

\* ----------------------------------------------------- claims: Flow start

\* C27: the start vertex is the name given to the first add_node, it never
\* changes afterwards whatever add_node and add_edge calls follow, and run
\* executes that vertex's node first.
Thm_C27_StartVertex ==
    /\ [][start_node # None => start_node' = start_node]_vars
    /\ [][(start_node = None /\ nodes' # nodes) =>
              (nodes = {} /\ nodes' = {start_node'})]_vars
    /\ [](start_node = None <=> nodes = {})
    /\ []((pc # "idle" /\ start_node # None) =>
              /\ start_node \in nodes
              /\ IF trace = <<>>
                 THEN pc = "loop" /\ current = start_node
                 ELSE trace[1] = start_node)

\* B was added first, then A and an edge from A; run called B's node first.
Wit_C27 ==
    /\ start_node = "B"
    /\ nodes = {"A", "B"}
    /\ \E e \in edges : e[1] = "B" /\ e[3] = "A"
    /\ Len(trace) = 2
    /\ trace[1] = "B"
    /\ trace[2] = "A"

\* ---------------------------------------------------- claims: Flow cycles

\* Every edge leads to a vertex that has a node, and there is a start.
AllTargetsHaveNodes ==
    /\ start_node # None
    /\ \A e \in edges : e[3] \in nodes

CountersOn(k) == Cardinality({i \in 1..Len(agents) : agents[i].key = k})

\* C31: agents that read a key, suspend and write the number read plus one.
\* After run, a key no agent counts under is as it was, and a key that n >= 1
\* agents count under has grown by at least 1 and at most n: with one agent
\* per key (disjoint keys) no update is lost; with several agents on a key
\* nothing merges their updates (the witness is a lost update).
Thm_C31_LostUpdate ==
    MADone =>
        \A k \in CounterKeys :
            LET n == CountersOn(k)
                before == CounterOf(minput, k)
                after == CounterOf(MAResult, k)
            IN  /\ n = 0 => (Has(MAResult, k) <=> Has(minput, k)) /\ after = before
                /\ n = 1 => after = before + 1
                /\ n >= 1 => (after >= before + 1 /\ after <= before + n)

\* Two agents count under "x", both read 1 before either wrote, and the
\* result is 2: one increment is lost.
Wit_C31 ==
    /\ MADone
    /\ Len(agents) = 2
    /\ agents[1].key = "x" /\ agents[2].key = "x"
    /\ CounterOf(minput, "x") = 1
    /\ mread = <<1, 1>>
    /\ CounterOf(MAResult, "x") = 2

\* -------------------------------------- claims: RetryNode, loop and prep

\* C32: in every node call execute is attempted at most max_retries times,
\* at most one attempt is pending, no attempt follows a successful one, and
\* a delay occurs only after a failed attempt that another attempt follows,
\* and only when wait_millis > 0.
Thm_C32_RetrySafety ==
    /\ rcalls.exec <= max_retries
    /\ rcalls.exec = Len(outcomes) + (IF rpc = "exec" THEN 1 ELSE 0)
    /\ \A i \in 1..Len(outcomes) :
           outcomes[i] = "ok" => (i = Len(outcomes) /\ rpc # "exec")
    /\ rpc = "sleep" =>
           /\ wait_millis > 0
           /\ outcomes # <<>> /\ outcomes[Len(outcomes)] = "err"
           /\ rcalls.exec < max_retries
           /\ rcalls.sleep = Len(outcomes) - 1
    /\ rcalls.sleep <= Cardinality({i \in 1..Len(outcomes) : outcomes[i] = "err"})
    /\ wait_millis = 0 => rcalls.sleep = 0
    /\ slept = rcalls.sleep * wait_millis
    /\ rpc = "exec" => rcalls.sleep = (IF wait_millis > 0 THEN Len(outcomes) ELSE 0)

\* Two attempts failed, each followed by a delay, and the third succeeded.
Wit_C32 ==
    /\ rpc = "done"
    /\ max_retries = 3
    /\ wait_millis > 0
    /\ outcomes = <<"err", "err", "ok">>
    /\ rcalls.exec = 3
    /\ rcalls.sleep = 2

\* C33: prepare runs exactly once per node call, before the first execute
\* attempt; its value never changes afterwards, so every execute attempt,
\* the fallback and post-process are given the same value; a retry never
\* re-runs prepare.
Thm_C33_PrepOnce ==
    /\ [](rcalls.prep <= 1)
    /\ []((rcalls.exec > 0 \/ rcalls.fallback > 0 \/ rcalls.post > 0) =>
              (rcalls.prep = 1 /\ prep_res # <<>>))
    /\ [](rpc = "prep" => (rcalls.exec = 0 /\ prep_res = <<>>))
    /\ [][prep_res # <<>> => prep_res' = prep_res]_vars
    /\ [][rcalls.exec > 0 => rcalls'.prep = rcalls.prep]_vars
    /\ [](postArgs # <<>> => postArgs[1].prep = prep_res[1])

\* Three attempts failed, the fallback ran, and post was given the value
\* prepare returned at the start.
Wit_C33 ==
    /\ rpc = "done"
    /\ outcomes = <<"err", "err", "err">>
    /\ rcalls.prep = 1
    /\ rcalls.fallback = 1
    /\ prep_res = <<Str("p2")>>
    /\ postArgs[1].prep = Str("p2")

\* --------------------------------------------- claims: Flow, acyclic flows

RECURSIVE ReachIn(_, _)
\* The vertices reached from the set S by one to k edges.
ReachIn(S, k) ==
    IF k = 0 THEN {}
    ELSE LET next == {e[3] : e \in {e2 \in edges : e2[1] \in S}}
         IN  next \cup ReachIn(next, k - 1)

\* The vertices of the edge graph, and: no vertex reaches itself.
Vertices == {e[1] : e \in edges} \cup {e[3] : e \in edges}
Acyclic == \A v \in Vertices : v \notin ReachIn({v}, Cardinality(Vertices))

\* C34: if the edge graph is acyclic and every node call returns, run halts,
\* having executed each vertex at most once: after at most as many node
\* calls as the flow has nodes.
Thm_C34_AcyclicHalts ==
    /\ [](Acyclic =>
              /\ \A i, j \in 1..Len(trace) : trace[i] = trace[j] => i = j
              /\ Len(trace) <= Cardinality(nodes))
    /\ ((pc # "idle" /\ Acyclic) ~> (pc = "done"))

\* A -default-> B, no way back: run called A, then B, and halted.
Wit_C34 ==
    /\ pc = "done"
    /\ edges = {<<"A", "default", "B">>}
    /\ Acyclic
    /\ trace = <<"A", "B">>
    /\ Cardinality(nodes) = 2

\* ------------------------------------------ claims: BatchFlow, kept keys

\* The shared state of the batch, before and after a step.
BFState     == heap[bfShared]
BFStateNext == heap'[bfShared']

\* The step is the resolution of a node's call; the step is the strip at
\* the end of a run of the workflow's flow.
IsNodeStep  == pending' < pending
IsStripStep == pc = "strip" /\ pc' = "done"

\* C35 as stated: a key in the shared state keeps its value in every later
\* run unless a node removes it.  (Violated: a node may overwrite it, and
\* the flow's strip removes "action".)
Cex_C35_KeptUnlessNodeRemoves ==
    [][(bfpc # "idle" /\ bfpc' # "idle") =>
          \A k \in DOMAIN BFState :
              \/ Has(BFStateNext, k) /\ BFStateNext[k] = BFState[k]
              \/ ~Has(BFStateNext, k) /\ IsNodeStep]_vars

\* C35, amended: only a node's call changes a key the shared state holds
\* (by removing or overwriting it), except that the strip at the end of each
\* run removes "action"; every other step, the merge of a later parameter
\* set included, leaves every key that is present with its value.
Thm_C35_OnlyNodesChangeKeys ==
    [][(bfpc # "idle" /\ bfpc' # "idle" /\ ~IsNodeStep) =>
          \A k \in DOMAIN BFState :
              \/ Has(BFStateNext, k) /\ BFStateNext[k] = BFState[k]
              \/ k = "action" /\ IsStripStep]_vars

\* The first set gave "p" = p1, the second holds "p" = p2: in the second
\* run "p" is still p1.
Wit_C35 ==
    /\ bfpc = "running"
    /\ bfIdx = 1
    /\ bfInput = EmptyMap
    /\ bfList[1] = Insert(EmptyMap, "p", Str("p1"))
    /\ bfList[2] = Insert(EmptyMap, "p", Str("p2"))
    /\ bfAtCall = Insert(EmptyMap, "p", Str("p1"))
    /\ Len(trace) = 1

\* ------------------------------------------------ claims: nested flows

\* C36: an inner flow that has a start node strips "action" before it
\* returns, so after the step of the inner flow the outer flow finds no
\* "action", reads the label "default", and never follows a non-default edge
\* out of the inner flow's vertex.
Thm_C36_InnerStripsAction ==
    start_node # None =>
        /\ \A i \in 1..Len(olabels) :
               olabels[i][1] = "I" => olabels[i][2] = "default"
        /\ \A i \in 1..(Len(otrace) - 1) :
               otrace[i] = "I" => otrace[i + 1] = "P"
        /\ (opc = "route" /\ ocurrent = "I") => ~Has(heap[ostore], "action")

\* The inner flow's last node left "retry" (the inner run read it and found
\* no edge), and the outer flow went on along "default" to "P".
Wit_C36 ==
    /\ start_node # None
    /\ lastLabel = "retry"
    /\ halt = "noedge"
    /\ otrace = <<"I", "P">>
    /\ olabels = << <<"I", "default">> >>

\* ------------------------------------------ claims: add_node and edges

\* The step is a logged add_node, and the name it was given.
IsAddNodeStep ==
    /\ Len(buildLog') = Len(buildLog) + 1
    /\ buildLog'[Len(buildLog')][1] = "node"
AddedName == buildLog'[Len(buildLog')][2]

\* C37: add_node(name, _) empties the outgoing edges of name, whether or not
\* name had a node before, and leaves every other edge (those of other
\* vertices, those pointing to name) as it was.
Thm_C37_AddNodeResetsEdges ==
    [][IsAddNodeStep =>
          /\ \A e \in edges' : e[1] # AddedName
          /\ \A e \in edges : e[1] # AddedName => e \in edges'
          /\ edges' \subseteq edges]_vars

\* A had an edge to B and B one to A before A was added: the edge out of A
\* is gone, the edge into A is still there.
Wit_C37 ==
    /\ buildLog = << <<"edge", "A", "default", "B">>,
                     <<"edge", "B", "default", "A">>,
                     <<"node", "A", "", "">> >>
    /\ edges = {<<"B", "default", "A">>}
    /\ nodes = {"A"}

\* ------------------------------------------- claims: Flow, missing node

\* C38: when run follows an edge to a name that has no node, it leaves the
\* loop without calling anything for that name, goes on to the strip as on
\* any other halt, and returns a state without "action".
Thm_C38_MissingTargetHalts ==
    /\ [][(pc = "loop" /\ current \notin nodes) =>
              /\ pc' = "strip"
              /\ halt' = "nonode"
              /\ trace' = trace
              /\ pending' = 0]_vars
    /\ [](halt = "nonode" =>
              /\ pc \in {"strip", "done"}
              /\ current \notin nodes
              /\ \A i \in 1..Len(trace) : trace[i] # current
              /\ trace # <<>>
              /\ <<trace[Len(trace)], lastLabel, current>> \in edges)
    /\ []((pc = "done" /\ halt = "nonode") => ~Has(heap[store], "action"))

\* A's node left "retry", the edge A -retry-> B leads to a name without a
\* node: run has returned after the one call, without "action".
Wit_C38 ==
    /\ pc = "done"
    /\ halt = "nonode"
    /\ nodes = {"A"}
    /\ edges = {<<"A", "retry", "B">>}
    /\ trace = <<"A">>
    /\ current = "B"
    /\ wrote
    /\ ~Has(heap[store], "action")

\* ------------------------------------ claims: Flow, non-string "action"

\* The store run reads its label from holds a non-string under "action".
NonStringAction ==
    /\ Has(heap[store], "action")
    /\ heap[store]["action"] \in NonStrings

\* C39: a value under "action" that is not a string (number, boolean, null,
\* array, object) is treated exactly as an unset key: the label read is
\* "default", and run follows the "default" edge of the current vertex, or
\* halts if there is none.
Thm_C39_NonStringIsDefault ==
    [][(pc = "route" /\ NonStringAction) =>
          /\ lastLabel' = "default"
          /\ lastLabel' = ActionLabel(Remove(heap[store], "action"))
          /\ IF get_next_step(current, "default") # None
             THEN pc' = "loop" /\ current' = get_next_step(current, "default")
             ELSE pc' = "strip" /\ halt' = "noedge" /\ current' = current]_vars

\* A's node left null under "action"; A has a "default" and a "retry" edge;
\* run went on to B along "default".
Wit_C39 ==
    /\ pc = "loop"
    /\ trace = <<"A">>
    /\ Has(heap[store], "action")
    /\ heap[store]["action"] = <<"null", "null">>
    /\ wrote
    /\ lastLabel = "default"
    /\ <<"A", "default", "B">> \in edges
    /\ current = "B"

====
